---- MODULE Spec2Model ----
(***************************************************************************)
(* A model of the agent goal evaluation pipeline:                          *)
(*   AgentGoalEval.get_eval_result  drives a batch of evaluations,         *)
(*   EvaluationRunner.run_evaluation runs one evaluation (setup script,    *)
(*   agent query, strategy dispatch, cleanup script),                      *)
(*   JudgeModelManager.evaluate_response retries the judge backend,        *)
(*   ScriptRunner.run_script and AgentHttpClient.query_agent are the       *)
(*   boundaries to the script executor and the agent service.              *)
(*                                                                         *)
(* Python strings are sequences of one-character strings; messages of      *)
(* exceptions are sequences of message parts; an Optional value is a       *)
(* sequence of length at most one (None is the empty sequence).            *)
(***************************************************************************)
EXTENDS Integers, Sequences, FiniteSets, TLC

\* ---------------------------------------------------------------- bounds

\* Largest number of evaluation configurations in one batch.
MaxEvals == 2

\* Longest response and longest keyword of the keyword-match inputs.
MaxLen == 2

\* Largest number of expected keywords of the keyword-match inputs.
MaxKeywords == 2

\* Longest text of the judge backend in the judge invocation's own inputs.
MaxJudgeLen == 3

\* Largest number of evaluations given to one conversation group.
MaxConversation == 2

\* Largest number of results given to the results aggregator.
MaxResults == 3

\* The most models a provider of the catalog lists.
MaxModels == 2

\* The most jobs a catalog of a sweep expands to.
MaxJobs == 3

\* The longest provider_id or model of the path checks.
MaxIdLen == 3

\* The most scripts run one after the other in one process.
MaxScriptRuns == 2

\* ------------------------------------------------------ program constants

\* constants.py: retry budget of one judge invocation.
MAX_RETRY_ATTEMPTS == 3

\* constants.py: seconds slept between two judge attempts.
TIME_TO_BREATH == 2

\* ------------------------------------------------------- optional values

None == <<>>

Some(x) == <<x>>

\* Python truthiness of an Optional[str] (a path or a text).
Truthy(o) == o # None /\ o[1] # ""

\* Python truthiness of an Optional[List[str]].
TruthyList(o) == o # None /\ o[1] # <<>>

\* ---------------------------------------------------------------- strings

\* str.lower() on the characters the model uses.
LowerChar(c) ==
    CASE c = "A" -> "a"
      [] c = "B" -> "b"
      [] OTHER -> c

Lower(s) == [i \in 1..Len(s) |-> LowerChar(s[i])]

\* The characters str.strip() removes.
IsSpace(c) == c = " "

RECURSIVE LStrip(_)
LStrip(s) == IF s # <<>> /\ IsSpace(Head(s)) THEN LStrip(Tail(s)) ELSE s

RECURSIVE RStrip(_)
RStrip(s) ==
    IF s # <<>> /\ IsSpace(s[Len(s)]) THEN RStrip(SubSeq(s, 1, Len(s) - 1)) ELSE s

Strip(s) == RStrip(LStrip(s))

\* Python's  sub in s  on strings.
Contains(s, sub) ==
    \E i \in 0..(Len(s) - Len(sub)) : SubSeq(s, i + 1, i + Len(sub)) = sub

\* ----------------------------------------------------------- script runner

\* What the script executor meets when it is asked to run a script: a path
\* Path.exists() fails on (a name too long, a directory that may not be
\* searched), a missing script, a failing chmod, a missing kubeconfig file,
\* subprocess.run raising a SubprocessError or an OSError (a script without
\* shebang, a bad interpreter, a directory), or a script that ran and
\* returned 0 or 1.
ScriptEnvs ==
    {"exists_error", "missing", "chmod_error", "kubeconfig_missing", "subprocess_error",
     "exec_error", "rc0", "rc1"}

\* A ScriptExecutionError with the message msg.
Raised(msg) ==
    [raised |-> TRUE, type |-> "ScriptExecutionError", msg |-> msg, returncode |-> -1]

\* The CompletedProcess of a script that returned rc.
Returned(rc) == [raised |-> FALSE, type |-> "none", msg |-> <<>>, returncode |-> rc]

\* ScriptRunner.run_script: the CompletedProcess it returns or the exception
\* it raises.  The existence check (lines 32-33) stands before the try block:
\* an OSError of Path.exists() leaves run_script as it is.  An error raised
\* inside the try block, the one for a non-zero return code included, is
\* caught by the last handler and raised again as "Unexpected error running
\* script".
run_script(env, check_return_code) ==
    IF env = "exists_error"
        THEN [raised |-> TRUE, type |-> "OSError", msg |-> <<"File name too long">>,
              returncode |-> -1]
    ELSE IF env = "missing" THEN Raised(<<"Script not found">>)
    ELSE IF env = "chmod_error"
        THEN Raised(<<"Unexpected error running script", "chmod failed">>)
    ELSE IF env = "kubeconfig_missing"
        THEN Raised(<<"Unexpected error running script", "Kubeconfig file not found">>)
    ELSE IF env = "subprocess_error"
        THEN Raised(<<"Error running script", "subprocess error">>)
    ELSE IF env = "exec_error"
        THEN Raised(<<"Unexpected error running script", "Exec format error">>)
    ELSE LET rc == IF env = "rc0" THEN 0 ELSE 1
         IN  IF check_return_code /\ rc # 0
                 THEN Raised(<<"Unexpected error running script",
                               "Script failed with return code">>)
                 ELSE Returned(rc)

\* ------------------------------------------------------------ agent client

\* One-character alphabet of agent responses and keywords.
Responses == { <<" ", "A", "b">>, <<"c">> }

\* What the HTTP POST of a query meets.
HttpEnvs == {"timeout", "status_error", "missing_field", "other_error"}

\* AgentHttpClient.query_agent for a reply that is not a well-formed 2xx: the
\* AgentAPIError it raises.  The error for a missing response field is raised
\* inside the try block and wrapped by the last handler.
query_agent_error(env) ==
    IF env = "timeout" THEN <<"Agent query timeout">>
    ELSE IF env = "status_error" THEN <<"Agent API error">>
    ELSE IF env = "missing_field"
        THEN <<"Unexpected error querying agent", "Agent response missing 'response' field">>
    ELSE <<"Unexpected error querying agent", "connection failed">>

\* AgentHttpClient.query_agent for a 2xx reply with a response field.
query_agent_ok(text) == Strip(text)

\* ------------------------------------------------------------- data models

EvalIds == {"test_001", "test_002", "test_003"}

\* The three evaluation types the runner dispatches on, and one it does not know.
EvalTypes == {"script", "sub-string", "judge-llm", "regex"}

KeywordLists == { <<>>, << <<"A">> >>, << <<"A">>, <<"c">> >> }

\* models.py EvaluationDataConfig (a plain dataclass: nothing is validated).
Configs ==
    [ eval_id : EvalIds,
      eval_query : {"query"},
      eval_type : EvalTypes,
      expected_response : {None, Some("expected")},
      expected_key_words : {None} \cup {Some(l) : l \in KeywordLists},
      eval_setup_script : {None, Some("setup.sh")},
      eval_verify_script : {None, Some("verify.sh")},
      eval_cleanup_script : {None, Some("cleanup.sh")} ]

\* models.py EvaluationResult as the runner constructs it.
EvaluationResult(c, response, result, error) ==
    [ eval_id |-> c.eval_id,
      query |-> c.eval_query,
      response |-> response,
      eval_type |-> c.eval_type,
      result |-> result,
      error |-> error ]

\* ------------------------------------------------------------- strategies

\* _evaluate_substring asking for every keyword instead of any.
_evaluate_substring_all(c, response) ==
    IF ~TruthyList(c.expected_key_words) THEN FALSE
    ELSE LET kws == c.expected_key_words[1]
         IN  \A i \in 1..Len(kws) : Contains(Lower(response), Lower(kws[i]))

\* EvaluationRunner._evaluate_substring
_evaluate_substring(c, response) ==
    IF ~TruthyList(c.expected_key_words) THEN FALSE
    ELSE LET kws == c.expected_key_words[1]
         IN  \E i \in 1..Len(kws) : Contains(Lower(response), Lower(kws[i]))

\* The characters the regular expression class \w matches.
IsWord(ch) == ch \in {"0", "1", "a", "b", "c", "x", "A", "B", "_"}

\* Position i of s holds a 0 or 1 between two word boundaries:  \b[01]\b
Standalone(s, i) ==
    /\ s[i] \in {"0", "1"}
    /\ (i = 1 \/ ~IsWord(s[i - 1]))
    /\ (i = Len(s) \/ ~IsWord(s[i + 1]))

ToInt(ch) == IF ch = "1" THEN 1 ELSE 0

\* _extract_numeric_result with a default of 1 for a text without a number.
_extract_numeric_result_open(text) ==
    LET s == Strip(text)
        numbers == {i \in 1..Len(s) : Standalone(s, i)}
    IN  IF s = <<"1">> THEN 1
        ELSE IF s = <<"0">> THEN 0
        ELSE IF numbers # {}
            THEN ToInt(s[CHOOSE i \in numbers : \A j \in numbers : i <= j])
        ELSE 1

\* EvaluationRunner._extract_numeric_result
_extract_numeric_result(text) ==
    LET s == Strip(text)
        numbers == {i \in 1..Len(s) : Standalone(s, i)}
    IN  IF s = <<"1">> THEN 1
        ELSE IF s = <<"0">> THEN 0
        ELSE IF numbers # {}
            THEN ToInt(s[CHOOSE i \in numbers : \A j \in numbers : i <= j])
        ELSE 0

\* ------------------------------------------------------------------ inputs

\* Texts a judge backend completion may carry.
JudgeTexts == { <<"1">>, <<" ", "0">>, <<"x", "1">> }

\* The three well-formed configurations a data file for a batch holds: the
\* fixtures of test_evaluator.py, a judge-llm evaluation with an expected
\* response, a script evaluation with a verify script only, and a sub-string
\* evaluation with two keywords.
BatchConfigs ==
    { c \in Configs :
        /\ c.eval_setup_script = None /\ c.eval_cleanup_script = None
        /\ \/ /\ c.eval_id = "test_001" /\ c.eval_type = "judge-llm"
              /\ c.expected_response # None /\ c.expected_key_words = None
              /\ c.eval_verify_script = None
           \/ /\ c.eval_id = "test_002" /\ c.eval_type = "script"
              /\ c.expected_response = None /\ c.expected_key_words = None
              /\ c.eval_verify_script # None
           \/ /\ c.eval_id = "test_003" /\ c.eval_type = "sub-string"
              /\ c.expected_response = None
              /\ c.expected_key_words = Some(<< <<"A">>, <<"c">> >>)
              /\ c.eval_verify_script = None }

RECURSIVE SeqsUpTo(_, _)
SeqsUpTo(S, n) ==
    IF n = 0 THEN { <<>> }
    ELSE LET shorter == SeqsUpTo(S, n - 1)
         IN  shorter \cup { Append(q, x) : q \in {r \in shorter : Len(r) = n - 1}, x \in S }

\* The evaluation data a run is given: one configuration of any shape, or a
\* batch of up to MaxEvals well-formed ones.
EvalData == { <<c>> : c \in Configs } \cup SeqsUpTo(BatchConfigs, MaxEvals)

\* ------------------------------------------------------------------- state

VARIABLES
    configs,         \* the list get_eval_data() returns
    judge_manager,   \* TRUE when the runner was given a judge manager
    pc,              \* position in get_eval_result / run_evaluation
    idx,             \* 1-based index of the configuration being evaluated
    response,        \* run_evaluation: the agent's response
    success,         \* run_evaluation: the strategy's verdict
    retry_counter,   \* evaluate_response: the loop variable
    judge_response,  \* evaluate_response: Optional text of the judge
    ret,             \* Optional result run_evaluation returned
    results,         \* get_eval_result: the list of results
    raised,          \* Optional message of the exception get_eval_result raised
    conversation_uuid, \* Optional conversation UUID the caller of run_evaluation has
    agent_calls,     \* history: the conversation id sent with each agent query of
                     \* this evaluation
    client_created,  \* TRUE once the agent's httpx.Client exists
    client_closed,   \* TRUE once agent_client.close() ran
    summary,         \* Optional counts _print_summary printed
    trace,           \* history of the current evaluation's steps
    sleeps,          \* history: sleep(TIME_TO_BREATH) calls of this evaluation
    data,            \* lsc models: the field values a model is constructed from
    model,           \* lsc models: Optional constructed model
    validation_error, \* lsc models: Optional message of the ValidationError
    key_extractor,   \* _calculate_stats_by_category: the key extractor
    category_stats,  \* _calculate_stats_by_category: Optional returned dict
    stats_calls,     \* history: calls of _calculate_stats_by_category
    providers_config, \* sweep: the provider catalog
    system_config,   \* sweep: the base run configuration
    provider_model_configs, \* sweep: the jobs the catalog expands to
    sweep_results,   \* sweep: runner.results, one record per finished job
    run_configs,     \* history: the run configuration of every job
    call,            \* Optional call of a library operation and its arguments
    returned,        \* Optional value the call returned
    os_environ,      \* the environment of the process (os.environ)
    effects          \* history: what the call did outside the process

vars ==
    << configs, judge_manager, conversation_uuid, agent_calls, pc, idx, response, success, retry_counter,
       judge_response, ret, results, raised, client_created, client_closed, summary,
       trace, sleeps, data, model, validation_error, key_extractor, category_stats,
       stats_calls, providers_config, system_config, provider_model_configs, sweep_results,
       run_configs, call, returned, os_environ, effects >>

\* The state of the data models and of the results aggregator, which the
\* runner leaves alone.
sweepVars == << providers_config, system_config, provider_model_configs, sweep_results, run_configs >>

\* A call of an operation outside a run, and what it left behind.
extVars == << call, returned, os_environ, effects >>

libVars == << data, model, validation_error, key_extractor, category_stats, stats_calls, sweepVars, extVars >>

batchVars ==
    << configs, judge_manager, conversation_uuid, agent_calls, idx, results, raised, client_created, client_closed,
       summary, libVars >>

evalVars == << response, success, retry_counter, judge_response, ret, trace, sleeps >>

\* The runner's own state.
runVars ==
    << configs, judge_manager, conversation_uuid, agent_calls, idx, raised, client_created, client_closed,
       summary >>

\* No run is under way.
RunnerIdle ==
    /\ configs = <<>>
    /\ judge_manager = FALSE
    /\ conversation_uuid = None
    /\ agent_calls = <<>>
    /\ idx = 0
    /\ raised = None
    /\ client_created = FALSE
    /\ client_closed = FALSE
    /\ summary = None
    /\ response = <<>>
    /\ success = FALSE
    /\ retry_counter = 0
    /\ judge_response = None
    /\ ret = None
    /\ trace = <<>>
    /\ sleeps = 0

\* No operation is being called on its own.
ExtIdle ==
    /\ call = None
    /\ returned = None
    /\ os_environ = << >>
    /\ effects = <<>>

\* No sweep is under way.
SweepIdle ==
    /\ providers_config = <<>>
    /\ system_config = None
    /\ provider_model_configs = <<>>
    /\ sweep_results = <<>>
    /\ run_configs = <<>>

\* No model is under construction and no statistics are being calculated.
LibIdle ==
    /\ SweepIdle
    /\ ExtIdle
    /\ data = None
    /\ model = None
    /\ validation_error = None
    /\ key_extractor = "none"
    /\ category_stats = None
    /\ stats_calls = 0

Init ==
    /\ configs \in EvalData
    /\ judge_manager = FALSE
    /\ pc = "init"
    /\ idx = 0
    /\ response = <<>>
    /\ success = FALSE
    /\ retry_counter = 0
    /\ judge_response = None
    /\ ret = None
    /\ results = <<>>
    /\ raised = None
    /\ conversation_uuid = None
    /\ agent_calls = <<>>
    /\ client_created = FALSE
    /\ client_closed = FALSE
    /\ summary = None
    /\ trace = <<>>
    /\ sleeps = 0
    /\ LibIdle

\* The configuration run_evaluation is working on.
data_config == configs[idx]

\* run_evaluation returns a result: control is back in get_eval_result.
Return(r) ==
    /\ ret' = Some(r)
    /\ pc' = "returned"

\* run_evaluation's outermost handler: any exception becomes a result.
\* (evaluator.py lines 85-94)
CatchAll(msg) ==
    Return(EvaluationResult(data_config, <<>>, "FAILED", Some(msg)))

\* ------------------------------------------------------ _setup_components

\* What may go wrong in AgentGoalEval._setup_components, in its order: the
\* data manager, httpx.Client, the token file, JudgeModelManager, the results
\* directory.
SetupEnvs ==
    {"ok", "config_error", "client_error", "token_error", "judge_error", "results_error"}

\* AgentGoalEval.__init__: the components are built one after the other and
\* an exception of any constructor leaves __init__ at once.
SetupComponents ==
    /\ pc = "init"
    /\ \E env \in SetupEnvs, judge_given \in BOOLEAN :
          /\ env = "judge_error" => judge_given
          /\ client_created' = (env \notin {"config_error", "client_error"})
          /\ judge_manager' = (judge_given /\ env \in {"ok", "results_error"})
          /\ IF env = "ok"
                THEN /\ pc' = "load"
                     /\ UNCHANGED raised
                ELSE /\ pc' = "init_failed"
                     /\ raised' = Some(<<env>>)
    /\ UNCHANGED << configs, conversation_uuid, agent_calls, idx, results,
                 client_closed, summary, libVars >>
    /\ UNCHANGED evalVars

\* ------------------------------------------------------- get_eval_result

\* configs = self.config_manager.get_eval_data(), which may raise.
LoadData ==
    /\ pc = "load"
    /\ \/ /\ pc' = "loop"
          /\ idx' = 1
          /\ UNCHANGED raised
       \/ /\ pc' = "finally"
          /\ raised' = Some(<<"eval data error">>)
          /\ UNCHANGED idx
    /\ UNCHANGED << configs, judge_manager, conversation_uuid, agent_calls,
                 client_created, results, client_closed, summary, libVars >>
    /\ UNCHANGED evalVars

\* The head of the for loop: the next configuration enters run_evaluation, or
\* the loop is over and the results are saved.
LoopHead ==
    /\ pc = "loop"
    /\ IF idx <= Len(configs)
          THEN /\ pc' = "setup"
               /\ response' = <<>>
               /\ success' = FALSE
               /\ retry_counter' = 0
               /\ judge_response' = None
               /\ ret' = None
               /\ trace' = <<>>
               /\ sleeps' = 0
               /\ agent_calls' = <<>>
          ELSE /\ pc' = "save"
               /\ UNCHANGED << evalVars, agent_calls >>
    /\ UNCHANGED << configs, judge_manager, conversation_uuid,
                 client_created, idx, results, raised, client_closed, summary, libVars >>

\* results.append(result) leaving the loop after a result with an error.
AppendResultAborting ==
    /\ pc = "returned"
    /\ results' = Append(results, ret[1])
    /\ idx' = idx + 1
    /\ pc' = IF ret[1].error # None THEN "save" ELSE "loop"
    /\ UNCHANGED << configs, judge_manager, conversation_uuid, agent_calls,
                 client_created, raised, client_closed, summary, libVars >>
    /\ UNCHANGED evalVars

\* results.append(result) and the logging of the result.
AppendResult ==
    /\ pc = "returned"
    /\ results' = Append(results, ret[1])
    /\ idx' = idx + 1
    /\ pc' = "loop"
    /\ UNCHANGED << configs, judge_manager, conversation_uuid, agent_calls,
                 client_created, raised, client_closed, summary, libVars >>
    /\ UNCHANGED evalVars

\* --------------------------------------------------------- run_evaluation

\* The setup script, when the configuration names one.  (lines 36-54)
SetupScript ==
    /\ pc = "setup"
    /\ IF ~Truthy(data_config.eval_setup_script)
          THEN /\ pc' = "query"
               /\ UNCHANGED << ret, trace >>
          ELSE \E env \in ScriptEnvs :
                 LET r == run_script(env, TRUE)
                 IN  IF r.raised /\ r.type = "ScriptExecutionError"
                        THEN /\ Return(EvaluationResult(data_config, <<>>, "FAILED",
                                         Some(<<"Setup script failed">> \o r.msg)))
                             /\ trace' = trace \o <<"setup", "setup_failed">>
                     ELSE IF r.raised
                        THEN /\ CatchAll(r.msg)
                             /\ trace' = trace \o <<"setup", "setup_failed">>
                        ELSE /\ pc' = "query"
                             /\ trace' = Append(trace, "setup")
                             /\ UNCHANGED ret
    /\ UNCHANGED << response, success, retry_counter, judge_response, sleeps >>
    /\ UNCHANGED batchVars

\* response = self.agent_client.query_agent(data_config.eval_query,
\* agent_provider, agent_model)  (lines 56-58): the body posted holds the
\* query, the provider and the model (api_client.py 46-53), no conversation
\* id.
QueryAgent ==
    /\ pc = "query"
    /\ agent_calls' = Append(agent_calls, None)
    /\ \/ \E text \in Responses :
            /\ response' = query_agent_ok(text)
            /\ pc' = "dispatch"
            /\ trace' = Append(trace, "query")
            /\ UNCHANGED ret
       \/ \E env \in HttpEnvs :
            /\ CatchAll(query_agent_error(env))
            /\ trace' = trace \o <<"query", "query_failed">>
            /\ UNCHANGED response
    /\ UNCHANGED << success, retry_counter, judge_response, sleeps >>
    /\ UNCHANGED << configs, judge_manager, conversation_uuid, idx, results, raised,
                    client_created, client_closed, summary, libVars >>

\* The verdict is in: control moves on to the cleanup script.
Verdict(v) ==
    /\ success' = v
    /\ pc' = "cleanup"
    /\ UNCHANGED ret

\* EvaluationRunner._evaluate_script  (lines 110-121).  Path(None) raises a
\* TypeError before run_script's own checks, which no handler below
\* run_evaluation's catches; nor is an exception of run_script that is no
\* ScriptExecutionError.
EvaluateScript ==
    /\ pc = "dispatch"
    /\ data_config.eval_type = "script"
    /\ IF data_config.eval_verify_script = None
          THEN /\ CatchAll(<<"expected str, bytes or os.PathLike object, not NoneType">>)
               /\ trace' = trace \o <<"script", "script_type_error">>
               /\ UNCHANGED success
          ELSE \E env \in ScriptEnvs :
                 LET r == run_script(env, FALSE)
                 IN  IF r.raised /\ r.type = "ScriptExecutionError"
                        THEN /\ Verdict(FALSE)
                             /\ trace' = trace \o <<"script", "script_raised">>
                     ELSE IF r.raised
                        THEN /\ CatchAll(r.msg)
                             /\ trace' = trace \o <<"script", "script_os_error">>
                             /\ UNCHANGED success
                        ELSE /\ Verdict(r.returncode = 0)
                             /\ trace' = trace \o <<"script",
                                    IF r.returncode = 0 THEN "exit_zero" ELSE "exit_nonzero">>
    /\ UNCHANGED << response, retry_counter, judge_response, sleeps >>
    /\ UNCHANGED batchVars

\* EvaluationRunner._evaluate_substring through _evaluate_response.
EvaluateSubstring ==
    /\ pc = "dispatch"
    /\ data_config.eval_type = "sub-string"
    /\ Verdict(_evaluate_substring(data_config, response))
    /\ trace' = Append(trace, "substring")
    /\ UNCHANGED << response, retry_counter, judge_response, sleeps >>
    /\ UNCHANGED batchVars

\* EvaluationRunner._evaluate_judge_llm up to the call of the judge manager
\* (lines 158-177).
EvaluateJudgeLlm ==
    /\ pc = "dispatch"
    /\ data_config.eval_type = "judge-llm"
    /\ IF ~judge_manager
          THEN /\ Verdict(FALSE)
               /\ trace' = Append(trace, "no_judge_manager")
       ELSE IF ~Truthy(data_config.expected_response)
          THEN /\ Verdict(FALSE)
               /\ trace' = Append(trace, "no_expected_response")
       ELSE /\ pc' = "judge"
            /\ trace' = Append(trace, "judge")
            /\ UNCHANGED << success, ret >>
    /\ retry_counter' = 0
    /\ judge_response' = None
    /\ UNCHANGED << response, sleeps >>
    /\ UNCHANGED batchVars

\* The last branch of _evaluate_response: an unknown evaluation type.
EvaluateUnknown ==
    /\ pc = "dispatch"
    /\ data_config.eval_type \notin {"script", "sub-string", "judge-llm"}
    /\ Verdict(FALSE)
    /\ trace' = Append(trace, "unknown_type")
    /\ UNCHANGED << response, retry_counter, judge_response, sleeps >>
    /\ UNCHANGED batchVars

\* The retry loop sleeping after every failed attempt, the last included.
JudgeAttemptOnSleepingLast(texts) ==
    /\ pc = "judge"
    /\ retry_counter < MAX_RETRY_ATTEMPTS
    /\ \/ \E text \in texts :
            /\ judge_response' = Some(Strip(text))
            /\ Verdict(_extract_numeric_result(Strip(text)) = 1)
            /\ trace' = Append(trace, "backend_ok")
            /\ UNCHANGED << retry_counter, sleeps >>
       \/ IF retry_counter = MAX_RETRY_ATTEMPTS - 1
             THEN /\ Verdict(FALSE)
                  /\ sleeps' = sleeps + 1
                  /\ trace' = trace \o <<"backend_failed", "sleep", "judge_model_error">>
                  /\ UNCHANGED << retry_counter, judge_response >>
             ELSE /\ retry_counter' = retry_counter + 1
                  /\ sleeps' = sleeps + 1
                  /\ trace' = trace \o <<"backend_failed", "sleep">>
                  /\ UNCHANGED << pc, success, ret, judge_response >>
    /\ UNCHANGED response
    /\ UNCHANGED batchVars

\* The retry loop giving up at its first failed attempt.
JudgeAttemptOnGivingUp(texts) ==
    /\ pc = "judge"
    /\ retry_counter < MAX_RETRY_ATTEMPTS
    /\ \/ \E text \in texts :
            /\ judge_response' = Some(Strip(text))
            /\ Verdict(_extract_numeric_result(Strip(text)) = 1)
            /\ trace' = Append(trace, "backend_ok")
       \/ /\ Verdict(FALSE)
          /\ trace' = trace \o <<"backend_failed", "judge_model_error">>
          /\ UNCHANGED judge_response
    /\ UNCHANGED << response, retry_counter, sleeps >>
    /\ UNCHANGED batchVars

\* One pass of the retry loop of JudgeModelManager.evaluate_response
\* (judge.py lines 86-108) and, when the loop ends, the rest of
\* _evaluate_judge_llm (evaluator.py lines 178-185).  texts are the contents
\* the backend may answer with.
JudgeAttemptOn(texts) ==
    /\ pc = "judge"
    /\ retry_counter < MAX_RETRY_ATTEMPTS
    /\ \/ \E text \in texts :
            /\ judge_response' = Some(Strip(text))
            /\ Verdict(_extract_numeric_result(Strip(text)) = 1)
            /\ trace' = Append(trace, "backend_ok")
            /\ UNCHANGED << retry_counter, sleeps >>
       \/ IF retry_counter = MAX_RETRY_ATTEMPTS - 1
             THEN /\ Verdict(FALSE)
                  /\ trace' = trace \o <<"backend_failed", "judge_model_error">>
                  /\ UNCHANGED << retry_counter, judge_response, sleeps >>
             ELSE /\ retry_counter' = retry_counter + 1
                  /\ sleeps' = sleeps + 1
                  /\ trace' = trace \o <<"backend_failed", "sleep">>
                  /\ UNCHANGED << pc, success, ret, judge_response >>
    /\ UNCHANGED response
    /\ UNCHANGED batchVars

JudgeAttempt == JudgeAttemptOn(JudgeTexts)

\* The loop moving on to the next configuration at the cleanup step, the
\* result of this one not yet produced.
CleanupScriptOverlapping ==
    /\ pc = "cleanup"
    /\ pc' = "loop"
    /\ idx' = idx + 1
    /\ UNCHANGED << configs, judge_manager, conversation_uuid, agent_calls,
                 client_created, results, raised, client_closed, summary, libVars >>
    /\ UNCHANGED evalVars

\* The cleanup script, when the configuration names one, and the result
\* (lines 63-83): a ScriptExecutionError of the script is logged, any other
\* exception of run_script goes to the outermost handler.
CleanupScript ==
    /\ pc = "cleanup"
    /\ IF ~Truthy(data_config.eval_cleanup_script)
          THEN /\ UNCHANGED trace
               /\ Return(EvaluationResult(data_config, response,
                                          IF success THEN "PASS" ELSE "FAIL", None))
          ELSE \E env \in ScriptEnvs :
                 LET r == run_script(env, TRUE)
                 IN  IF r.raised /\ r.type # "ScriptExecutionError"
                        THEN /\ trace' = trace \o <<"cleanup", "cleanup_failed">>
                             /\ CatchAll(r.msg)
                        ELSE /\ trace' = IF r.raised
                                            THEN trace \o <<"cleanup", "cleanup_failed">>
                                            ELSE Append(trace, "cleanup")
                             /\ Return(EvaluationResult(data_config, response,
                                          IF success THEN "PASS" ELSE "FAIL", None))
    /\ UNCHANGED << response, success, retry_counter, judge_response, sleeps >>
    /\ UNCHANGED batchVars

\* ------------------------------------------- get_eval_result, after the loop

\* ResultsManager.save_results: nothing is written for an empty list;
\* a failure to write is raised again.
SaveResults ==
    /\ pc = "save"
    /\ \/ /\ pc' = "summary"
          /\ UNCHANGED raised
       \/ /\ results # <<>>
          /\ pc' = "finally"
          /\ raised' = Some(<<"failed to save results">>)
    /\ UNCHANGED << configs, judge_manager, conversation_uuid, agent_calls,
                 client_created, idx, results, client_closed, summary, libVars >>
    /\ UNCHANGED evalVars

Count(res) == Cardinality({i \in 1..Len(results) : results[i].result = res})

\* AgentGoalEval._print_summary: the four counts are printed, then the
\* success rate, which divides by the total.
PrintSummary ==
    /\ pc = "summary"
    /\ summary' = Some([ total |-> Len(results),
                         passed |-> Count("PASS"),
                         failed |-> Count("FAIL"),
                         errored |-> Count("FAILED") ])
    /\ IF Len(results) = 0
          THEN raised' = Some(<<"division by zero">>)
          ELSE UNCHANGED raised
    /\ pc' = "finally"
    /\ UNCHANGED << configs, judge_manager, conversation_uuid, agent_calls,
                 client_created, idx, results, client_closed, libVars >>
    /\ UNCHANGED evalVars

\* The finally clause: AgentGoalEval._cleanup closes the agent client.
Cleanup ==
    /\ pc = "finally"
    /\ client_closed' = TRUE
    /\ pc' = "done"
    /\ UNCHANGED << configs, judge_manager, conversation_uuid, agent_calls,
                 client_created, idx, results, raised, summary, libVars >>
    /\ UNCHANGED evalVars

Next ==
    \/ SetupComponents
    \/ LoadData
    \/ LoopHead
    \/ SetupScript
    \/ QueryAgent
    \/ EvaluateScript
    \/ EvaluateSubstring
    \/ EvaluateJudgeLlm
    \/ EvaluateUnknown
    \/ JudgeAttempt
    \/ CleanupScript
    \/ AppendResult
    \/ SaveResults
    \/ PrintSummary
    \/ Cleanup

Spec == Init /\ [][Next]_vars

\* ------------------------------------------------------------ properties

\* The step named x happened in the evaluation under way.
InTrace(x) == \E i \in 1..Len(trace) : trace[i] = x

\* run_evaluation has just returned: ret holds its result.
HasReturned == pc = "returned"

\* An exception was raised in the setup script, the agent query or the
\* strategy dispatch of the evaluation under way.
ExceptionRaised ==
    \/ InTrace("setup_failed")
    \/ InTrace("query_failed")
    \/ InTrace("script_raised")
    \/ InTrace("script_type_error")
    \/ InTrace("script_os_error")
    \/ InTrace("judge_model_error")

\* A strategy (keyword match, verify script, judge call) was invoked.
StrategyInvoked ==
    \/ InTrace("script")
    \/ InTrace("substring")
    \/ InTrace("judge")
    \/ InTrace("no_judge_manager")
    \/ InTrace("no_expected_response")
    \/ InTrace("unknown_type")

\* C1: when the setup script of an evaluation fails, the agent is not queried
\* at any point of that evaluation and the result returned is ERROR.
C1_SetupFailureIsError ==
    InTrace("setup_failed") =>
        /\ ~InTrace("query")
        /\ (HasReturned => ret[1].result = "ERROR")

\* C2: run_evaluation returns one result and lets no exception out of it, and
\* an exception raised anywhere in the pipeline gives the result ERROR with
\* the exception's text as its error.
C2_ExceptionsBecomeErrorResults ==
    /\ (pc \in {"setup", "query", "dispatch", "judge", "cleanup", "returned"}
            => raised = None)
    /\ (HasReturned => ret # None)
    /\ (HasReturned /\ ExceptionRaised
            => ret[1].result = "ERROR" /\ ret[1].error # None)

\* C3: when the cleanup script fails, the result returned carries the verdict
\* the strategy computed before the cleanup ran, PASS for a true verdict and
\* FAIL for a false one, and no error.
C3_CleanupFailureKeepsVerdict ==
    [][ (pc = "cleanup" /\ InTrace("cleanup_failed")')
            => /\ pc' = "returned"
               /\ ret'[1].result = (IF success THEN "PASS" ELSE "FAIL")
               /\ ret'[1].error = None ]_vars

\* C4: every result the runner produces, returned or collected, has a result
\* value among PASS, FAIL and ERROR.
C4_ResultValues ==
    /\ (ret # None => ret[1].result \in {"PASS", "FAIL", "ERROR"})
    /\ \A i \in 1..Len(results) : results[i].result \in {"PASS", "FAIL", "ERROR"}

\* C5: a result carries an error only if its result value is ERROR, so PASS
\* and FAIL results carry none.
C5_ErrorOnlyWithError ==
    /\ (ret # None /\ ret[1].error # None => ret[1].result = "ERROR")
    /\ (ret # None /\ ret[1].result \in {"PASS", "FAIL"} => ret[1].error = None)

\* C6: when the agent query fails, no strategy is invoked and the result is
\* ERROR with the failure message in its error.
C6_AgentFailureIsError ==
    InTrace("query_failed") =>
        /\ ~StrategyInvoked
        /\ (HasReturned => /\ ret[1].result = "ERROR"
                         /\ ret[1].error # None)

\* C7: a script evaluation whose verify script fails with a script execution
\* error returns ERROR with the failure message, not FAIL.
C7_ScriptErrorIsError ==
    (HasReturned /\ data_config.eval_type = "script" /\ InTrace("script_raised"))
        => /\ ret[1].result = "ERROR"
           /\ ret[1].error # None

\* C8: a judge-llm evaluation dispatched by a runner without a judge manager
\* returns ERROR, never FAIL or PASS.
C8_NoJudgeIsError ==
    (HasReturned /\ data_config.eval_type = "judge-llm" /\ ~judge_manager
        /\ InTrace("no_judge_manager"))
        => ret[1].result = "ERROR"

\* C9: when the judge invocation uses up its attempts and raises
\* JudgeModelError, the evaluation returns ERROR, not FAIL, and the batch
\* goes on.
C9_JudgeFailureIsError ==
    (HasReturned /\ InTrace("judge_model_error"))
        => /\ ret[1].result = "ERROR"
           /\ raised = None

\* C10: an evaluation type outside judge-llm, script and sub-string that
\* reaches the dispatch returns ERROR, not FAIL.
C10_UnknownTypeIsError ==
    (HasReturned /\ InTrace("unknown_type")) => ret[1].result = "ERROR"

\* ------------------------------------------- keyword match on its own inputs

\* The characters of the responses.
Alphabet == {"a", "A", "b"}

\* The characters of the keywords: one letter in both cases.
KeywordAlphabet == {"a", "A"}

\* Responses of at most MaxLen characters.
Texts == SeqsUpTo(Alphabet, MaxLen)

\* Keywords of at most MaxLen characters.
Keywords == SeqsUpTo(KeywordAlphabet, MaxLen)

\* Sub-string configurations with up to MaxKeywords keywords and no scripts.
SubstringConfigs ==
    { [ eval_id |-> "test_003",
        eval_query |-> "query",
        eval_type |-> "sub-string",
        expected_response |-> None,
        expected_key_words |-> Some(kws),
        eval_setup_script |-> None,
        eval_verify_script |-> None,
        eval_cleanup_script |-> None ] : kws \in SeqsUpTo(Keywords, MaxKeywords) }

\* run_evaluation on a sub-string configuration, the agent having answered.
InitSubstring ==
    /\ configs \in { <<c>> : c \in SubstringConfigs }
    /\ judge_manager = FALSE
    /\ pc = "dispatch"
    /\ idx = 1
    /\ response \in Texts
    /\ success = FALSE
    /\ retry_counter = 0
    /\ judge_response = None
    /\ ret = None
    /\ results = <<>>
    /\ raised = None
    /\ conversation_uuid = None
    /\ agent_calls = << None >>
    /\ client_created = TRUE
    /\ client_closed = FALSE
    /\ summary = None
    /\ trace = <<"query">>
    /\ sleeps = 0
    /\ LibIdle

NextSubstring ==
    \/ EvaluateSubstring
    \/ CleanupScript

SpecSubstring == InitSubstring /\ [][NextSubstring]_vars

\* Case folding to capitals, the other way round from str.lower().
UpperChar(ch) ==
    CASE ch = "a" -> "A"
      [] ch = "b" -> "B"
      [] ch = "c" -> "C"
      [] OTHER -> ch

Upper(s) == [i \in 1..Len(s) |-> UpperChar(s[i])]

\* Keyword kw occurs in the response, letter case aside.
Occurs(kw) ==
    \E i \in 1..(Len(response) - Len(kw) + 1) :
        \A j \in 1..Len(kw) : UpperChar(response[i + j - 1]) = UpperChar(kw[j])

\* The expected keywords of the configuration under evaluation.
ExpectedKeywords ==
    IF data_config.expected_key_words = None THEN <<>>
    ELSE data_config.expected_key_words[1]

NumOccurring == Cardinality({i \in 1..Len(ExpectedKeywords) : Occurs(ExpectedKeywords[i])})

\* C11: a sub-string evaluation is PASS if and only if at least one expected
\* keyword occurs in the agent's response, compared without regard to case;
\* otherwise it is FAIL.
C11_SubstringAnyKeyword ==
    (HasReturned /\ data_config.eval_type = "sub-string")
        => ret[1].result = (IF NumOccurring >= 1 THEN "PASS" ELSE "FAIL")

\* C11 witness: a keyword matched only through case folding gave PASS.
C11_Witness ==
    /\ HasReturned
    /\ ExpectedKeywords = << <<"A", "a">> >>
    /\ response = <<"a", "A">>
    /\ ret[1].result = "PASS"

\* C12: with several expected keywords the evaluation is PASS only when every
\* one of them occurs in the response; a response holding only some of them
\* is FAIL.
C12_SubstringAllKeywords ==
    (HasReturned /\ data_config.eval_type = "sub-string"
        /\ Len(ExpectedKeywords) >= 2 /\ ret[1].result = "PASS")
        => NumOccurring = Len(ExpectedKeywords)

\* C13: a script evaluation whose verify script ran to completion is PASS if
\* and only if the exit code is 0; a non-zero exit code gives FAIL with no
\* error, not ERROR.
C13_ScriptExitCode ==
    (HasReturned /\ data_config.eval_type = "script")
        => /\ (InTrace("exit_zero") => ret[1].result = "PASS" /\ ret[1].error = None)
           /\ (InTrace("exit_nonzero") => ret[1].result = "FAIL" /\ ret[1].error = None)
           /\ (ret[1].result = "PASS" => InTrace("exit_zero"))

\* ---------------------------------------- judge invocation on its own inputs

JudgeAlphabet == {"0", "1", "x", " ", "."}

\* Every text of at most MaxJudgeLen characters the backend may answer with.
AllJudgeTexts == SeqsUpTo(JudgeAlphabet, MaxJudgeLen)

\* The judge-llm fixture, without scripts.
JudgeConfigs ==
    { c \in BatchConfigs : c.eval_type = "judge-llm" }

\* run_evaluation on a judge-llm configuration at the call of
\* judge_manager.evaluate_response, the agent having answered.
InitJudge ==
    /\ configs \in { <<c>> : c \in JudgeConfigs }
    /\ judge_manager = TRUE
    /\ pc = "judge"
    /\ idx = 1
    /\ response \in { query_agent_ok(t) : t \in Responses }
    /\ success = FALSE
    /\ retry_counter = 0
    /\ judge_response = None
    /\ ret = None
    /\ results = <<>>
    /\ raised = None
    /\ conversation_uuid = None
    /\ agent_calls = << None >>
    /\ client_created = TRUE
    /\ client_closed = FALSE
    /\ summary = None
    /\ trace = <<"query", "judge">>
    /\ sleeps = 0
    /\ LibIdle

JudgeAttemptAny == JudgeAttemptOn(AllJudgeTexts)

NextJudge ==
    \/ JudgeAttemptAny
    \/ CleanupScript

SpecJudge == InitJudge /\ [][NextJudge]_vars

\* The invocation is a for loop in one thread: its next step is always taken.
FairSpecJudge == SpecJudge /\ WF_vars(NextJudge)

\* The characters that separate the tokens of a judge text.
IsSeparator(ch) == ch \in {" ", "."}

\* s[i..j] is a token: a longest stretch of s without a separator.
IsToken(s, i, j) ==
    /\ i <= j
    /\ \A k \in i..j : ~IsSeparator(s[k])
    /\ (i = 1 \/ IsSeparator(s[i - 1]))
    /\ (j = Len(s) \/ IsSeparator(s[j + 1]))

\* The positions of the tokens of s that are a lone 0 or a lone 1.
BinaryTokens(s) == {i \in 1..Len(s) : IsToken(s, i, i) /\ s[i] \in {"0", "1"}}

\* The verdict the judge text s stands for.
JudgeVerdict(s) ==
    IF s = <<"1">> THEN 1
    ELSE IF s = <<"0">> THEN 0
    ELSE IF BinaryTokens(s) = {} THEN 0
    ELSE LET first == CHOOSE i \in BinaryTokens(s) : \A j \in BinaryTokens(s) : i <= j
         IN  IF s[first] = "1" THEN 1 ELSE 0

\* C14: the verdict of a judge-llm evaluation whose judge answered is the one
\* its trimmed text stands for: "1" and "0" themselves, else the first
\* standalone 0 or 1, else 0; so a text without a standalone 0 or 1 is never
\* PASS.
C14_JudgeVerdictFailClosed ==
    (HasReturned /\ InTrace("backend_ok"))
        => /\ ret[1].result = (IF JudgeVerdict(judge_response[1]) = 1 THEN "PASS" ELSE "FAIL")
           /\ (BinaryTokens(judge_response[1]) = {} => ret[1].result = "FAIL")

\* C14 witness: a judge text with a 1 that does not stand alone gave FAIL.
C14_Witness ==
    /\ HasReturned
    /\ judge_response = Some(<<"x", "1">>)
    /\ ret[1].result = "FAIL"

\* The positions of the trace where the token x stands.
At(x) == {i \in 1..Len(trace) : trace[i] = x}

\* The positions of the backend calls of the judge invocation.
BackendCalls == At("backend_ok") \cup At("backend_failed")

\* The judge invocation was entered and is over.
JudgeInvocationOver == InTrace("judge") /\ pc # "judge"

\* C15: a judge invocation makes 1 to 3 backend calls, none after a
\* successful one; a sleep follows each failed call but the third and nothing
\* else, so there are at most 2 sleeps and none after the final attempt.
C15_JudgeRetryBudget ==
    InTrace("judge") =>
        /\ Cardinality(BackendCalls) <= 3
        /\ JudgeInvocationOver => Cardinality(BackendCalls) >= 1
        /\ \A i \in At("backend_ok") : \A j \in BackendCalls : j <= i
        /\ \A i \in At("sleep") : i - 1 \in At("backend_failed")
        /\ \A i \in At("backend_failed") :
              (i + 1 \in At("sleep")) <=> (Cardinality({j \in BackendCalls : j <= i}) < 3)
        /\ Cardinality(At("sleep")) <= 2
        /\ sleeps = Cardinality(At("sleep"))

\* C15 witness: two failed calls, each followed by a sleep, then a call that
\* succeeded.
C15_Witness ==
    /\ JudgeInvocationOver
    /\ Cardinality(At("backend_failed")) = 2
    /\ Cardinality(At("sleep")) = 2
    /\ InTrace("backend_ok")

\* What holds of a judge invocation at every moment: JudgeModelError is raised
\* exactly when three calls have failed, and an invocation that is over
\* without it has the text of its one successful call, which was its last.
JudgeOutcome ==
    InTrace("judge") =>
        /\ InTrace("judge_model_error")
              <=> Cardinality(At("backend_failed")) = MAX_RETRY_ATTEMPTS
        /\ InTrace("judge_model_error") => ~InTrace("backend_ok") /\ pc # "judge"
        /\ (JudgeInvocationOver /\ ~InTrace("judge_model_error"))
              => /\ judge_response # None
                 /\ Cardinality(At("backend_ok")) = 1
                 /\ \A i \in At("backend_failed") : \A j \in At("backend_ok") : i < j
        /\ pc = "judge" => judge_response = None /\ ~InTrace("backend_ok")

\* C16: a judge invocation terminates, with the text of its first successful
\* call, or with JudgeModelError if and only if all 3 calls failed; it never
\* ends without a text and never raises while attempts remain.
C16_JudgeInvocationTerminates ==
    /\ []JudgeOutcome
    /\ (pc = "judge") ~> JudgeInvocationOver

\* C16 witness: the invocation ended in JudgeModelError after three failed
\* calls.
C16_Witness ==
    /\ JudgeInvocationOver
    /\ InTrace("judge_model_error")
    /\ Cardinality(At("backend_failed")) = 3
    /\ judge_response = None

\* The loop over the loaded configurations is over.
LoopOver ==
    /\ pc \in {"save", "summary", "finally", "done"}
    /\ raised # Some(<<"eval data error">>)

\* C17: a batch over N configurations produces N results, the i-th with the
\* eval_id of the i-th configuration, whichever evaluations ended with an
\* error; at no moment is a result out of place.
C17_OneResultPerConfig ==
    /\ Len(results) <= Len(configs)
    /\ \A i \in 1..Len(results) : results[i].eval_id = configs[i].eval_id
    /\ LoopOver => Len(results) = Len(configs)

\* C17 witness: the first evaluation ended with an error, the second one ran
\* and passed.
C17_Witness ==
    /\ LoopOver
    /\ Len(results) = 2
    /\ results[1].error # None
    /\ results[2].result = "PASS"
    /\ results[1].eval_id # results[2].eval_id

\* The positions of run_evaluation: an evaluation is under way.
EvalPcs == {"setup", "query", "dispatch", "judge", "cleanup", "returned"}

\* A step of an evaluation: its setup, agent query, verify or cleanup.
EvalStep == trace' # trace /\ trace' # <<>>

\* C19: evaluations run one at a time in input order: while evaluation i is
\* under way the results of evaluations 1..i-1, and no others, are there;
\* every step of an evaluation leaves the position in the list alone, and the
\* position moves on by one only with the result of the evaluation at hand.
C19_StrictlySequential ==
    /\ [](pc \in EvalPcs => idx \in 1..Len(configs) /\ Len(results) = idx - 1)
    /\ [][ /\ EvalStep => idx' = idx /\ results' = results /\ Len(results) = idx - 1
           /\ (idx' # idx /\ idx # 0)
                 => /\ idx' = idx + 1
                    /\ ret # None
                    /\ ret[1].eval_id = configs[idx].eval_id
                    /\ results' = Append(results, ret[1]) ]_vars

\* C19 witness: the agent query of the second evaluation is next, the result
\* of the first being there.
C19_Witness ==
    /\ pc = "query"
    /\ idx = 2
    /\ Len(results) = 1
    /\ results[1].eval_id = configs[1].eval_id

\* The run is over: get_eval_result has left its finally clause, or __init__
\* raised and main exits.
RunOver == pc \in {"done", "init_failed"}

\* C20: a run that acquired the agent HTTP client has closed it by the time
\* it is over, whichever way it ended.
C20_ClientClosedOnEveryExit ==
    (RunOver /\ client_created) => client_closed

\* ------------------------------------------- run_evaluation called directly

\* The conversation UUID a caller has for an evaluation: none for a standalone
\* evaluation, or the one of test_conversation_uuid_propagation, which the
\* caller passes as the fourth argument of run_evaluation.
ConversationUuids == {None, Some("test-conversation-uuid-456")}

\* A caller is about to call run_evaluation(config, provider, model) or
\* run_evaluation(config, provider, model, conversation_uuid) on a runner with
\* or without a judge manager.
InitCall ==
    /\ configs \in { <<c>> : c \in Configs }
    /\ judge_manager \in BOOLEAN
    /\ conversation_uuid \in ConversationUuids
    /\ agent_calls = <<>>
    /\ pc = "call"
    /\ idx = 1
    /\ response = <<>>
    /\ success = FALSE
    /\ retry_counter = 0
    /\ judge_response = None
    /\ ret = None
    /\ results = <<>>
    /\ raised = None
    /\ client_created = TRUE
    /\ client_closed = FALSE
    /\ summary = None
    /\ trace = <<>>
    /\ sleeps = 0
    /\ LibIdle

\* The call binds its arguments to run_evaluation(self, data_config,
\* agent_provider, agent_model) (evaluator.py lines 31-33): a conversation UUID
\* is one positional argument too many, a TypeError raised to the caller
\* before the body is entered.
RunEvaluationCall ==
    /\ pc = "call"
    /\ IF conversation_uuid # None
          THEN /\ raised' = Some(<<"TypeError", "takes 4 positional arguments but 5 were given">>)
               /\ pc' = "call_raised"
          ELSE /\ pc' = "setup"
               /\ UNCHANGED raised
    /\ UNCHANGED << configs, judge_manager, conversation_uuid, agent_calls, idx, results,
                    client_created, client_closed, summary, libVars >>
    /\ UNCHANGED evalVars

NextCall ==
    \/ RunEvaluationCall
    \/ SetupScript
    \/ QueryAgent
    \/ EvaluateScript
    \/ EvaluateSubstring
    \/ EvaluateJudgeLlm
    \/ EvaluateUnknown
    \/ JudgeAttempt
    \/ CleanupScript

SpecCall == InitCall /\ [][NextCall]_vars

\* The call of run_evaluation is over: it returned or it raised.
CallOver == pc \in {"returned", "call_raised"}

\* C18: a call of run_evaluation ends with a result, PASS, FAIL or ERROR, that
\* carries the conversation UUID the caller passed (none for a standalone
\* evaluation), and every agent query of the call was sent with that UUID.
C18_ConversationUuidCarried ==
    /\ CallOver => /\ ret # None
                   /\ "conversation_uuid" \in DOMAIN ret[1]
                   /\ ret[1].conversation_uuid = conversation_uuid
    /\ \A i \in 1..Len(agent_calls) : agent_calls[i] = conversation_uuid

\* -------------------------------------------- lsc_agent_eval: data models

VALID_EVAL_TYPES == {"judge-llm", "script", "sub-string"}

VALID_EVAL_RESULTS == {"PASS", "FAIL", "ERROR"}

\* What a script path names on disk.
PathKinds == [ p \in {"verify.sh", "scripts", "missing.sh"} |->
                 IF p = "verify.sh" THEN "file"
                 ELSE IF p = "scripts" THEN "directory" ELSE "missing" ]

\* _validate_script_path on a Path: the messages of the errors it raises.
_validate_script_path(script_file, script_name) ==
    IF script_file = None THEN {}
    ELSE IF PathKinds[script_file[1]] = "missing" THEN {script_name \o " file not found"}
    ELSE IF PathKinds[script_file[1]] # "file" THEN {script_name \o " is not a file"}
    ELSE {}

\* The list comprehension of validate_keywords: blank entries dropped, the
\* others stripped.
StrippedKeywords(v) ==
    LET kept == SelectSeq(v, LAMBDA keyword : keyword # <<>> /\ Strip(keyword) # <<>>)
    IN  [i \in 1..Len(kept) |-> Strip(kept[i])]

\* Field(min_length=1) and validate_keywords: the messages of the errors.
validate_keywords(v) ==
    IF v = None THEN {}
    ELSE IF Len(v[1]) < 1 THEN {"expected_keywords too short"}
    ELSE IF StrippedKeywords(v[1]) = <<>>
        THEN {"expected_keywords cannot be empty after filtering"}
    ELSE {}

\* The Field constraints and field validators of EvaluationDataConfig: the
\* messages of all the errors pydantic collects.
EvaluationFieldErrors(d) ==
    (IF d.eval_id = "" THEN {"eval_id too short"} ELSE {})
    \cup (IF d.eval_query = "" THEN {"eval_query too short"} ELSE {})
    \cup (IF d.eval_type \notin VALID_EVAL_TYPES THEN {"eval_type must be one of"} ELSE {})
    \cup (IF d.expected_response = Some("") THEN {"expected_response too short"} ELSE {})
    \cup validate_keywords(d.expected_keywords)
    \cup _validate_script_path(d.eval_verify_script, "eval_verify_script")
    \cup (IF d.conversation_group = Some(<<>>) THEN {"conversation_group too short"} ELSE {})
    \cup (IF d.conversation_uuid = Some("") THEN {"conversation_uuid too short"} ELSE {})

\* The fields after their validators ran.
EvaluationFields(d) ==
    [ d EXCEPT !.expected_keywords = IF @ = None THEN None ELSE Some(StrippedKeywords(@[1])) ]

\* EvaluationDataConfig.validate_eval_requirements: the message of its error.
validate_eval_requirements(m) ==
    IF m.eval_type = "judge-llm"
        THEN IF ~Truthy(m.expected_response)
                THEN {"eval_type 'judge-llm' requires non-empty 'expected_response'"}
                ELSE {}
    ELSE IF m.eval_type = "sub-string"
        THEN IF ~TruthyList(m.expected_keywords)
                THEN {"eval_type 'sub-string' requires non-empty 'expected_keywords'"}
                ELSE {}
    ELSE IF m.eval_type = "script"
        THEN IF m.eval_verify_script = None
                THEN {"eval_type 'script' requires non-empty 'eval_verify_script'"}
                ELSE {}
    ELSE {}

\* EvaluationDataConfig(**d): the model, or the errors of the ValidationError.
\* The model validator runs when no field failed.
EvaluationDataConfig(d) ==
    LET field_errors == EvaluationFieldErrors(d)
        m == EvaluationFields(d)
        errors == IF field_errors # {} THEN field_errors ELSE validate_eval_requirements(m)
    IN  IF errors # {} THEN [model |-> None, error |-> Some(errors)]
        ELSE [model |-> Some(m), error |-> None]

\* Keywords as they are written in a data file.
KeywordInputs == { <<" ">>, <<" ", "A">> }

\* The field values EvaluationDataConfig may be given.
EvaluationData ==
    [ eval_id : {"", "test_001"},
      eval_query : {"query"},
      eval_type : EvalTypes,
      expected_response : {None, Some(""), Some("expected")},
      expected_keywords : {None} \cup { Some(k) : k \in SeqsUpTo(KeywordInputs, MaxKeywords) },
      eval_verify_script : {None} \cup { Some(p) : p \in DOMAIN PathKinds },
      conversation_group : {None, Some(<<>>), Some(<<"h">>)},
      conversation_uuid : {None, Some("child-uuid")} ]

\* Evaluations as they are written inside a conversation group.
ChildData ==
    { d \in EvaluationData :
        /\ d.eval_id # "" /\ d.eval_type = "judge-llm"
        /\ d.expected_response \in {None, Some("expected")}
        /\ d.expected_keywords = None /\ d.eval_verify_script = None
        /\ d.conversation_group # Some(<<>>) }

\* Evaluations of the second identifier.
RenamedChildData == { [d EXCEPT !.eval_id = "test_002"] : d \in ChildData }

\* The UUIDs uuid.uuid4() may generate.
GeneratedUuids == {"uuid4-a", "uuid4-b"}

\* The field values ConversationDataConfig may be given; no conversation_uuid
\* stands for the default factory.
ConversationData ==
    [ conversation_group : { <<>>, <<" ">>, <<"g">>, <<" ", "g">> },
      conversation_uuid : {None, Some("group-uuid")},
      conversation : SeqsUpTo(ChildData \cup RenamedChildData, MaxConversation),
      setup_script : {None},
      cleanup_script : {None} ]

\* ConversationDataConfig.validate_conversation_group after the Field
\* constraints: the messages of the errors.
validate_conversation_group(v) ==
    IF Len(v) < 1 THEN {"conversation_group too short"}
    ELSE IF Len(v) > 100 THEN {"conversation_group too long"}
    ELSE IF Strip(v) = <<>> THEN {"conversation_group cannot be empty"}
    ELSE {}

\* The errors of the conversation field: the list's min_length and the
\* validation of every evaluation in it.
ConversationListErrors(v) ==
    IF Len(v) < 1 THEN {"conversation too short"}
    ELSE UNION { IF EvaluationDataConfig(v[i]).error = None THEN {}
                 ELSE EvaluationDataConfig(v[i]).error[1] : i \in 1..Len(v) }

ConversationFieldErrors(d) ==
    validate_conversation_group(d.conversation_group)
    \cup ConversationListErrors(d.conversation)
    \cup _validate_script_path(d.setup_script, "setup_script")
    \cup _validate_script_path(d.cleanup_script, "cleanup_script")

\* The fields after their validators ran; uuid4 is what the default factory
\* generates when no conversation_uuid is given.
ConversationFields(d, uuid4) ==
    [ conversation_group |-> Strip(d.conversation_group),
      conversation_uuid |-> IF d.conversation_uuid = None THEN uuid4 ELSE d.conversation_uuid[1],
      conversation |-> [i \in 1..Len(d.conversation) |->
                           EvaluationDataConfig(d.conversation[i]).model[1]],
      setup_script |-> d.setup_script,
      cleanup_script |-> d.cleanup_script ]

\* SetConversation leaving the evaluations as they were given.
SetConversationSkipped(m) == m

\* The loop of validate_conversation_data that sets conversation group and
\* UUID on the evaluations (lines 205-208).
SetConversation(m) ==
    [ m EXCEPT !.conversation =
        [i \in 1..Len(@) |-> [ @[i] EXCEPT !.conversation_group = Some(m.conversation_group),
                                           !.conversation_uuid = Some(m.conversation_uuid) ]] ]

\* validate_conversation_data without the check for duplicates.
validate_conversation_data_lenient(m) ==
    IF m.conversation = <<>>
        THEN [self |-> m, errors |-> {"must have at least one evaluation"}]
    ELSE [self |-> SetConversation(m), errors |-> {}]

\* ConversationDataConfig.validate_conversation_data: the model as the
\* validator leaves it and the message of its error. The evaluations are
\* given the group and the UUID (lines 205-208) before the check for
\* duplicates (210-216), so they carry them when the check raises too.
validate_conversation_data(m) ==
    LET eval_ids == [i \in 1..Len(m.conversation) |-> m.conversation[i].eval_id]
        duplicates == SelectSeq(eval_ids, LAMBDA eval_id :
                          Cardinality({i \in 1..Len(eval_ids) : eval_ids[i] = eval_id}) > 1)
    IN  IF m.conversation = <<>>
            THEN [self |-> m, errors |-> {"must have at least one evaluation"}]
        ELSE IF duplicates # <<>>
            THEN [self |-> SetConversation(m),
                  errors |-> {"Duplicate eval_id(s) in conversation"}]
        ELSE [self |-> SetConversation(m), errors |-> {}]

\* ConversationDataConfig(**d): the model, or the errors of the
\* ValidationError; evaluations are the evaluation objects of the list as the
\* call leaves them, none when one of them is not valid.
ConversationDataConfig(d, uuid4) ==
    LET field_errors == ConversationFieldErrors(d)
        m == ConversationFields(d, uuid4)
        validated == validate_conversation_data(m)
    IN  IF field_errors # {}
            THEN [model |-> None, error |-> Some(field_errors),
                  evaluations |-> IF ConversationListErrors(d.conversation) = {}
                                     THEN m.conversation ELSE <<>>]
        ELSE IF validated.errors # {}
            THEN [model |-> None, error |-> Some(validated.errors),
                  evaluations |-> validated.self.conversation]
        ELSE [model |-> Some(validated.self), error |-> None,
              evaluations |-> validated.self.conversation]

\* A model is about to be constructed from the values in data.
InitModels ==
    /\ RunnerIdle
    /\ ExtIdle
    /\ SweepIdle
    /\ results = <<>>
    /\ pc = "construct"
    /\ data \in { Some([cls |-> "EvaluationDataConfig", kwargs |-> d]) : d \in EvaluationData }
                  \cup { Some([cls |-> "ConversationDataConfig", kwargs |-> d]) :
                           d \in ConversationData }
    /\ model = None
    /\ validation_error = None
    /\ key_extractor = "none"
    /\ category_stats = None
    /\ stats_calls = 0

\* EvaluationDataConfig(**kwargs)
ConstructEvaluationDataConfig ==
    /\ pc = "construct"
    /\ data[1].cls = "EvaluationDataConfig"
    /\ model' = EvaluationDataConfig(data[1].kwargs).model
    /\ validation_error' = EvaluationDataConfig(data[1].kwargs).error
    /\ pc' = "constructed"
    /\ UNCHANGED << data, key_extractor, category_stats, stats_calls, results >>
    /\ UNCHANGED << runVars, evalVars, extVars, sweepVars >>

\* ConversationDataConfig(**kwargs); effects holds the evaluation objects of
\* the list after the call.
ConstructConversationDataConfig ==
    /\ pc = "construct"
    /\ data[1].cls = "ConversationDataConfig"
    /\ \E uuid4 \in GeneratedUuids :
          /\ model' = ConversationDataConfig(data[1].kwargs, uuid4).model
          /\ validation_error' = ConversationDataConfig(data[1].kwargs, uuid4).error
          /\ effects' = ConversationDataConfig(data[1].kwargs, uuid4).evaluations
    /\ pc' = "constructed"
    /\ UNCHANGED << data, key_extractor, category_stats, stats_calls, results >>
    /\ UNCHANGED << runVars, evalVars, call, returned, os_environ, sweepVars >>

NextModels ==
    \/ ConstructEvaluationDataConfig
    \/ ConstructConversationDataConfig

SpecModels == InitModels /\ [][NextModels]_vars

\* An EvaluationDataConfig was constructed.
EvaluationConstructed ==
    pc = "constructed" /\ data[1].cls = "EvaluationDataConfig" /\ model # None

\* The strategy payloads the constructed evaluation has.
PopulatedPayloads ==
    {f \in {"expected_response", "expected_keywords", "eval_verify_script"} : model[1][f] # None}

\* The payload an evaluation type requires.
RequiredPayload(eval_type) ==
    CASE eval_type = "judge-llm" -> "expected_response"
      [] eval_type = "sub-string" -> "expected_keywords"
      [] eval_type = "script" -> "eval_verify_script"
      [] OTHER -> "none"

\* C21: a constructed evaluation has one of the three evaluation types and
\* exactly the payload of that type, and no payload of another strategy.
C21_ExactlyOnePayload ==
    EvaluationConstructed =>
        /\ model[1].eval_type \in {"judge-llm", "sub-string", "script"}
        /\ PopulatedPayloads = {RequiredPayload(model[1].eval_type)}

\* A ConversationDataConfig was to be constructed.
ConversationRequested ==
    pc = "constructed" /\ data[1].cls = "ConversationDataConfig"

\* A ConversationDataConfig was constructed.
ConversationConstructed == ConversationRequested /\ model # None

\* Two evaluations of the list have the same eval_id.
RepeatedEvalId(conversation) ==
    \E i, j \in 1..Len(conversation) : i # j /\ conversation[i].eval_id = conversation[j].eval_id

\* C22: a constructed conversation group has at least one evaluation and its
\* evaluations have pairwise distinct eval_id; a group given an empty list or
\* a repeated eval_id is rejected at construction.
C22_NonEmptyDistinctEvalIds ==
    /\ ConversationConstructed =>
          /\ Len(model[1].conversation) >= 1
          /\ ~RepeatedEvalId(model[1].conversation)
    /\ ConversationRequested
         /\ (data[1].kwargs.conversation = <<>> \/ RepeatedEvalId(data[1].kwargs.conversation))
       => model = None /\ validation_error # None

\* A group of two evaluations with different eval_id was constructed.
C22_Witness ==
    /\ ConversationConstructed
    /\ Len(model[1].conversation) = 2
    /\ model[1].conversation[1].eval_id # model[1].conversation[2].eval_id

\* A group whose two valid evaluations share the eval_id was rejected.
C22_WitnessRejected ==
    /\ ConversationRequested
    /\ model = None
    /\ validation_error = Some({"Duplicate eval_id(s) in conversation"})

\* C23: after a conversation group is constructed, every evaluation in it has
\* the conversation_uuid and conversation_group of the group, whatever the
\* evaluation was given on its own.
C23_ChildrenCarryGroupIdentity ==
    ConversationConstructed =>
        \A i \in 1..Len(model[1].conversation) :
            /\ model[1].conversation[i].conversation_uuid = Some(model[1].conversation_uuid)
            /\ model[1].conversation[i].conversation_group = Some(model[1].conversation_group)

\* An evaluation given a UUID and a group of its own was constructed inside a
\* group whose UUID came from the default factory.
C23_Witness ==
    /\ ConversationConstructed
    /\ data[1].kwargs.conversation_uuid = None
    /\ model[1].conversation_uuid \in GeneratedUuids
    /\ data[1].kwargs.conversation[1].conversation_uuid = Some("child-uuid")
    /\ data[1].kwargs.conversation[1].conversation_group = Some(<<"h">>)
    /\ model[1].conversation_group = <<"g">>
    /\ model[1].conversation[1].conversation_uuid = Some(model[1].conversation_uuid)

\* ---------------------------------------------------------------------------
\* lsc_agent_eval: result statistics
\* ---------------------------------------------------------------------------

\* The results the statistics are calculated over.
StatResults ==
    [ result : VALID_EVAL_RESULTS,
      eval_type : {"judge-llm", "script"},
      conversation_group : {None, Some("conv1")} ]

\* The key extractors of EvaluationStats.from_results (lines 289-293).
KeyExtractors == {"by_conversation", "by_eval_type"}

ExtractKey(extractor, r) ==
    IF extractor = "by_conversation"
        THEN IF r.conversation_group = None \/ r.conversation_group = Some("")
                THEN "unknown" ELSE r.conversation_group[1]
        ELSE r.eval_type

\* ------------------------------------------------ binary floating point
\* The quotient passed / total and its product with 100 are IEEE doubles: 53
\* significant bits, rounded to nearest, ties to even. A natural number too
\* large for an integer of the model is held as the sequence of its digits in
\* base 2^15, the most significant first; the counts are below 2^16.

MantissaBits == 53

DigitBits == 15

RECURSIVE Pow2(_)
Pow2(n) == IF n = 0 THEN 1 ELSE 2 * Pow2(n - 1)

Base == Pow2(DigitBits)

\* The digits of the natural number n, none for 0.
RECURSIVE NatDigits(_)
NatDigits(n) == IF n = 0 THEN <<>> ELSE Append(NatDigits(n \div Base), n % Base)

\* digits without its leading zeros
RECURSIVE StripZeros(_)
StripZeros(digits) ==
    IF digits # <<>> /\ digits[1] = 0 THEN StripZeros(Tail(digits)) ELSE digits

\* The number of bits of the natural number n.
RECURSIVE BitLength(_)
BitLength(n) == IF n = 0 THEN 0 ELSE 1 + BitLength(n \div 2)

\* The number of bits of digits, which has no leading zero.
DigitsBitLength(digits) ==
    IF digits = <<>> THEN 0
    ELSE DigitBits * (Len(digits) - 1) + BitLength(digits[1])

\* digits * n + carry for natural numbers n and carry below 2^16: the digits
\* from position i down.
RECURSIVE MulAddFrom(_, _, _, _, _)
MulAddFrom(digits, n, i, carry, acc) ==
    IF i = 0 THEN StripZeros(NatDigits(carry) \o acc)
    ELSE LET v == digits[i] * n + carry
         IN  MulAddFrom(digits, n, i - 1, v \div Base, <<v % Base>> \o acc)

MulSmall(digits, n) == MulAddFrom(digits, n, Len(digits), 0, <<>>)

AddSmall(digits, n) == MulAddFrom(digits, 1, Len(digits), n, <<>>)

\* digits * 2^n
ShiftLeft(digits, n) ==
    MulSmall(digits, Pow2(n % DigitBits)) \o [i \in 1..(n \div DigitBits) |-> 0]

\* -1, 0 or 1 as a is less than, equal to or greater than b
CompareDigits(a, b) ==
    LET x == StripZeros(a)
        y == StripZeros(b)
        differ == {i \in 1..Len(x) : Len(x) = Len(y) /\ x[i] # y[i]}
    IN  IF Len(x) < Len(y) THEN -1
        ELSE IF Len(x) > Len(y) THEN 1
        ELSE IF differ = {} THEN 0
        ELSE LET i == CHOOSE j \in differ : \A k \in differ : j <= k
             IN  IF x[i] < y[i] THEN -1 ELSE 1

\* The number of zeros after the binary point of rem / total before its
\* first 1, for 0 < rem < total.
RECURSIVE LeadingZeros(_, _)
LeadingZeros(rem, total) ==
    IF 2 * rem >= total THEN 0 ELSE 1 + LeadingZeros(2 * rem, total)

\* The long division of rem * Base^n by total: the digits of the quotient
\* after acc and the remainder.
RECURSIVE DivideFrom(_, _, _, _)
DivideFrom(rem, total, n, acc) ==
    IF n = 0 THEN [digits |-> acc, rem |-> rem]
    ELSE DivideFrom((rem * Base) % total, total, n - 1,
                    Append(acc, (rem * Base) \div total))

\* The double passed / total for 0 < passed < total: its value is the number
\* digits divided by 2^scale, digits being the quotient of passed * 2^scale
\* by total, of MantissaBits bits, rounded by the remainder.
FloatQuotient(passed, total) ==
    LET scale == LeadingZeros(passed, total) + MantissaBits
        first == passed * Pow2(scale % DigitBits)
        quotient == DivideFrom(first % total, total, scale \div DigitBits,
                               <<first \div total>>)
        odd == quotient.digits[Len(quotient.digits)] % 2 = 1
        up == 2 * quotient.rem > total \/ (2 * quotient.rem = total /\ odd)
    IN  [ digits |-> IF up THEN AddSmall(quotient.digits, 1)
                     ELSE StripZeros(quotient.digits),
          scale |-> scale ]

\* digits rounded to MantissaBits significant bits; fewer than DigitBits bits
\* are dropped, all of the last digit.
RoundDigits(digits) ==
    LET dropped == DigitsBitLength(digits) - MantissaBits
        last == digits[Len(digits)]
        unit == Pow2(dropped)
        low == last % unit
        kept == [digits EXCEPT ![Len(digits)] = last - low]
        odd == (last \div unit) % 2 = 1
        up == 2 * low > unit \/ (2 * low = unit /\ odd)
    IN  IF dropped <= 0 THEN digits
        ELSE IF up THEN AddSmall(kept, unit)
        ELSE kept

\* The double (passed / total) * 100 compared with the number passed * 100 /
\* total: -1 when the double is below it, 0 when it is exact, 1 when above.
FloatError(passed, total) ==
    LET quotient == FloatQuotient(passed, total)
        product == RoundDigits(MulSmall(quotient.digits, 100))
    IN  CompareDigits(MulSmall(product, total),
                      ShiftLeft(NatDigits(passed * 100), quotient.scale))

\* round((passed / total) * 100, 2), in hundredths of a percent. Python
\* rounds the double the product is: when passed * 100 / total is half way
\* between two hundredths the double may be below or above it and is rounded
\* accordingly; when the double is exactly half way it is rounded to the even
\* neighbour.
Round2(passed, total) ==
    LET q == (passed * 10000) \div total
        r == (passed * 10000) % total
    IN  IF 2 * r < total THEN q
        ELSE IF 2 * r > total THEN q + 1
        ELSE LET error == FloatError(passed, total)
             IN  IF error < 0 THEN q
                 ELSE IF error > 0 THEN q + 1
                 ELSE IF q % 2 = 0 THEN q ELSE q + 1

\* The loop of _calculate_stats_by_category (lines 55-66) over results[i..]:
\* category_stats maps a category to its counters.
RECURSIVE CountByCategory(_, _, _, _)
CountByCategory(rs, extractor, i, stats) ==
    IF i > Len(rs) THEN stats
    ELSE LET category == ExtractKey(extractor, rs[i])
             entry == IF category \in DOMAIN stats THEN stats[category]
                      ELSE [passed |-> 0, failed |-> 0, errored |-> 0]
             counted == CASE rs[i].result = "PASS" -> [entry EXCEPT !.passed = @ + 1]
                          [] rs[i].result = "FAIL" -> [entry EXCEPT !.failed = @ + 1]
                          [] rs[i].result = "ERROR" -> [entry EXCEPT !.errored = @ + 1]
                          [] OTHER -> entry
         IN  CountByCategory(rs, extractor, i + 1,
                 [c \in DOMAIN stats \cup {category} |-> IF c = category THEN counted ELSE stats[c]])

\* The success rate of a category, truncated instead of rounded.
CategoryRateTruncated(passed, total) ==
    IF total > 0 THEN (passed * 10000) \div total ELSE 0

\* The success rate of a category (lines 71-73).
CategoryRate(passed, total) ==
    IF total > 0 THEN Round2(passed, total) ELSE 0

\* _calculate_stats_by_category(results, key_extractor)
_calculate_stats_by_category(rs, extractor) ==
    LET stats == CountByCategory(rs, extractor, 1, << >>)
    IN  [ c \in DOMAIN stats |->
            LET total == stats[c].passed + stats[c].failed + stats[c].errored
            IN  [ passed |-> stats[c].passed,
                  failed |-> stats[c].failed,
                  errored |-> stats[c].errored,
                  total |-> total,
                  success_rate |-> CategoryRate(stats[c].passed, total) ] ]

\* The number of results with the given outcome.
CountResult(rs, res) == Cardinality({i \in 1..Len(rs) : rs[i].result = res})

\* from_results taking the categories of by_conversation, the "unknown" one
\* included, for the conversations.
from_results_counting_unknown(rs) ==
    LET total == Len(rs)
        passed == CountResult(rs, "PASS")
    IN  [ total_evaluations |-> total,
          total_conversations |->
              Cardinality(DOMAIN _calculate_stats_by_category(rs, "by_conversation")),
          passed |-> passed,
          failed |-> CountResult(rs, "FAIL"),
          errored |-> CountResult(rs, "ERROR"),
          success_rate |-> IF total > 0 THEN [num |-> passed * 100, den |-> total]
                           ELSE [num |-> 0, den |-> 1],
          by_conversation |-> _calculate_stats_by_category(rs, "by_conversation"),
          by_eval_type |-> _calculate_stats_by_category(rs, "by_eval_type") ]

\* EvaluationStats.from_results(results); success_rate is the unrounded
\* quotient passed / total * 100, kept as a fraction.
from_results(rs) ==
    LET total == Len(rs)
        passed == CountResult(rs, "PASS")
    IN  [ total_evaluations |-> total,
          total_conversations |->
              Cardinality({ rs[i].conversation_group : i \in 1..Len(rs) } \ {None, Some("")}),
          passed |-> passed,
          failed |-> CountResult(rs, "FAIL"),
          errored |-> CountResult(rs, "ERROR"),
          success_rate |-> IF total > 0 THEN [num |-> passed * 100, den |-> total]
                           ELSE [num |-> 0, den |-> 1],
          by_conversation |-> _calculate_stats_by_category(rs, "by_conversation"),
          by_eval_type |-> _calculate_stats_by_category(rs, "by_eval_type") ]

\* The callers of the aggregator call it at most this many times over one
\* result list.
MaxStatsCalls == 2

\* A result list is ready for the statistics.
InitStats ==
    /\ RunnerIdle
    /\ ExtIdle
    /\ SweepIdle
    /\ pc = "stats"
    /\ results \in SeqsUpTo(StatResults, MaxResults)
    /\ key_extractor \in KeyExtractors
    /\ data = None
    /\ model = None
    /\ validation_error = None
    /\ category_stats = None
    /\ stats_calls = 0

\* One call of _calculate_stats_by_category over the result list.
CalculateStats ==
    /\ pc = "stats"
    /\ stats_calls < MaxStatsCalls
    /\ category_stats' = Some(_calculate_stats_by_category(results, key_extractor))
    /\ stats_calls' = stats_calls + 1
    /\ UNCHANGED << pc, results, key_extractor, data, model, validation_error >>
    /\ UNCHANGED << runVars, evalVars, extVars, sweepVars >>

\* EvaluationStats.from_results over the result list.
FromResults ==
    /\ pc = "stats"
    /\ model = None
    /\ model' = Some(from_results(results))
    /\ UNCHANGED << pc, results, key_extractor, data, validation_error, category_stats, stats_calls >>
    /\ UNCHANGED << runVars, evalVars, extVars, sweepVars >>

NextStats ==
    \/ CalculateStats
    \/ FromResults

SpecStats == InitStats /\ [][NextStats]_vars

\* The results of a category under the key extractor of the state.
InCategory(c) == {i \in 1..Len(results) : ExtractKey(key_extractor, results[i]) = c}

PassedIn(c) == Cardinality({i \in InCategory(c) : results[i].result = "PASS"})

\* x is the multiple of 0.01 nearest to passed / total * 100.
NearestHundredth(x, passed, total) ==
    LET d == x * total - passed * 10000
    IN  2 * (IF d < 0 THEN -d ELSE d) <= total

\* C24: each category the aggregator produced holds the results the key
\* extractor maps to it, and its success_rate is passed / total * 100 rounded
\* to two decimals, passed and total counting the results of the category.
C24_CategorySuccessRate ==
    category_stats # None =>
        /\ DOMAIN category_stats[1] = { ExtractKey(key_extractor, results[i]) : i \in 1..Len(results) }
        /\ \A c \in DOMAIN category_stats[1] :
              /\ category_stats[1][c].total = Cardinality(InCategory(c))
              /\ category_stats[1][c].passed = PassedIn(c)
              /\ NearestHundredth(category_stats[1][c].success_rate, PassedIn(c), Cardinality(InCategory(c)))

\* A category of three results of which two passed: 66.67.
C24_Witness ==
    /\ category_stats # None
    /\ \E c \in DOMAIN category_stats[1] :
          /\ category_stats[1][c].total = 3
          /\ category_stats[1][c].passed = 2
          /\ category_stats[1][c].success_rate = 6667

\* The statistics over an empty result list report a success rate of 0.0 and
\* no category.
EmptyStatistics ==
    (results = <<>> /\ pc = "stats") =>
        /\ model # None => /\ model[1].success_rate.num = 0
                           /\ model[1].by_conversation = << >>
                           /\ model[1].by_eval_type = << >>
        /\ category_stats # None => category_stats[1] = << >>

\* C25: a run over a data file without evaluations ends without raising, its
\* final summary printed: no success rate divides by zero.
C25_NoDivisionByZero ==
    (pc = "done" /\ configs = <<>> /\ raised # Some(<<"eval data error">>)) =>
        /\ raised = None
        /\ summary = Some([total |-> 0, passed |-> 0, failed |-> 0, errored |-> 0])

\* ---------------------------------------------------------------------------
\* Multi-provider sweep (run_multi_provider_eval.py)
\* ---------------------------------------------------------------------------

\* The providers "openai" and "watsonx" of the catalog, abbreviated.
ProviderNames == { <<"o", "a", "i">>, <<"w", "x">> }

\* The top-level key of the catalog that holds settings, not a provider.
SettingsKey == <<"s", "e", "t">>

\* The models "gpt-4o-mini" and "ibm/granite-13b-chat-v2", abbreviated.
ModelNames == { <<"g", "4">>, <<"i", "/", "g">> }

\* The resolved base output directory.
OutputBase == <<"/", "t", "/", "o">>

\* The top-level entries a catalog may hold.
CatalogEntries ==
    { [key |-> p, value |-> [models |-> ms]] : p \in ProviderNames, ms \in SeqsUpTo(ModelNames, MaxModels) }
    \cup { [key |-> SettingsKey, value |-> [output_base |-> OutputBase]] }

\* The catalogs: a mapping holds a key once, in the order it was written.
Catalogs ==
    { c \in SeqsUpTo(CatalogEntries, Cardinality(ProviderNames) + 1) :
        \A i, j \in 1..Len(c) : i # j => c[i].key # c[j].key }

\* The jobs of one provider, its first model only.
ProviderJobsFirstModel(entry) ==
    IF entry.key = SettingsKey \/ "models" \notin DOMAIN entry.value \/ entry.value.models = <<>>
        THEN <<>>
        ELSE << [ provider_name |-> entry.key, provider_id |-> entry.key, model |-> entry.value.models[1] ] >>

\* The jobs of one top-level entry of the catalog: one per model, in order;
\* none for the settings or another entry without models.
ProviderJobs(entry) ==
    IF entry.key = SettingsKey \/ "models" \notin DOMAIN entry.value
        THEN <<>>
        ELSE [ i \in 1..Len(entry.value.models) |->
                 [ provider_name |-> entry.key, provider_id |-> entry.key, model |-> entry.value.models[i] ] ]

\* MultiProviderEvaluationRunner._create_provider_model_configs over the
\* entries catalog[i..]
RECURSIVE _create_provider_model_configs(_, _)
_create_provider_model_configs(catalog, i) ==
    IF i > Len(catalog) THEN <<>>
    ELSE ProviderJobs(catalog[i]) \o _create_provider_model_configs(catalog, i + 1)

\* The base run configurations: the judge model under llm, the agent under
\* test under api.
SystemConfigs ==
    { [ llm |-> [provider |-> "openai", model |-> "gpt-4o-mini", temperature |-> 0],
        api |-> [enabled |-> e, provider |-> <<"o", "a", "i">>, model |-> <<"g", "4">>],
        output |-> [output_dir |-> "./eval_output"] ] : e \in BOOLEAN }

\* _create_modified_system_config overriding the judge model as well.
_create_modified_system_config_judge(base, provider_id, model_name) ==
    [ base EXCEPT !.api.provider = provider_id, !.api.model = model_name,
                  !.llm.provider = provider_id, !.llm.model = model_name ]

\* MultiProviderEvaluationRunner._create_modified_system_config: a copy of
\* the base configuration with the agent's provider and model overridden.
_create_modified_system_config(base, provider_id, model_name) ==
    IF base.api.enabled
        THEN [ base EXCEPT !.api.provider = provider_id, !.api.model = model_name ]
        ELSE base

\* Every ".." of s replaced by "_", left to right.
RECURSIVE ReplaceDotDot(_)
ReplaceDotDot(s) ==
    IF Len(s) < 2 THEN s
    ELSE IF s[1] = "." /\ s[2] = "." THEN <<"_">> \o ReplaceDotDot(SubSeq(s, 3, Len(s)))
    ELSE <<s[1]>> \o ReplaceDotDot(Tail(s))

\* The sanitiser replacing the separators and the colon only.
_sanitize_separators(s) ==
    [ i \in 1..Len(s) |-> IF s[i] \in {"/", "\\", ":"} THEN "_" ELSE s[i] ]

\* The sanitised form of a provider_id or model: "/", "\" and ":" replaced
\* by "_", then ".." replaced by "_".
_sanitize(s) ==
    ReplaceDotDot([ i \in 1..Len(s) |-> IF s[i] \in {"/", "\\", ":"} THEN "_" ELSE s[i] ])

\* The output directory of a job: output_base / provider / model.
OutputDir(provider_id, model_name) ==
    OutputBase \o <<"/">> \o _sanitize(provider_id) \o <<"/">> \o _sanitize(model_name)

\* What the evaluation engine returns for a job: no result, a summary, or a
\* summary lacking a key.
EngineOutcomes ==
    { None,
      Some([PASS |-> 5, FAIL |-> 2, ERROR |-> 0]),
      Some([PASS |-> 5, FAIL |-> 2]),
      Some([FAIL |-> 2, ERROR |-> 0]) }

\* _run_single_evaluation recording every returned summary as a success.
_run_single_evaluation_trusting(job, outcome) ==
    [ provider_name |-> job.provider_name,
      provider_id |-> job.provider_id,
      model |-> job.model,
      output_dir |-> OutputDir(job.provider_id, job.model),
      success |-> outcome # None,
      error |-> IF outcome = None THEN Some("Evaluation returned None (failed)") ELSE None,
      summary |-> outcome ]

\* MultiProviderEvaluationRunner._run_single_evaluation: the record of a job
\* whose evaluation pass returned outcome.
_run_single_evaluation(job, outcome) ==
    LET valid == outcome # None /\ {"PASS", "FAIL", "ERROR"} \subseteq DOMAIN outcome[1]
    IN  [ provider_name |-> job.provider_name,
          provider_id |-> job.provider_id,
          model |-> job.model,
          output_dir |-> OutputDir(job.provider_id, job.model),
          success |-> valid,
          error |-> IF outcome = None THEN Some("Evaluation returned None (failed)")
                    ELSE IF ~valid THEN Some("Invalid summary structure")
                    ELSE None,
          summary |-> IF valid THEN outcome ELSE None ]

\* A runner was constructed over a catalog and a base configuration.
InitSweep ==
    /\ RunnerIdle
    /\ ExtIdle
    /\ results = <<>>
    /\ pc = "expand"
    /\ data = None
    /\ model = None
    /\ validation_error = None
    /\ key_extractor = "none"
    /\ category_stats = None
    /\ stats_calls = 0
    /\ providers_config \in { c \in Catalogs : Len(_create_provider_model_configs(c, 1)) <= MaxJobs }
    /\ system_config \in { Some(c) : c \in SystemConfigs }
    /\ provider_model_configs = <<>>
    /\ sweep_results = <<>>
    /\ run_configs = <<>>

\* run_evaluations: the catalog is expanded to the jobs.
CreateProviderModelConfigs ==
    /\ pc = "expand"
    /\ provider_model_configs' = _create_provider_model_configs(providers_config, 1)
    /\ pc' = "run"
    /\ UNCHANGED << providers_config, system_config, sweep_results, run_configs >>
    /\ UNCHANGED << data, model, validation_error, key_extractor, category_stats, stats_calls, results >>
    /\ UNCHANGED << runVars, evalVars, extVars >>

\* run_evaluations: the next job runs with its own configuration and its
\* record is appended, whatever the evaluation pass returned.
RunSingleEvaluation ==
    /\ pc = "run"
    /\ Len(sweep_results) < Len(provider_model_configs)
    /\ LET job == provider_model_configs[Len(sweep_results) + 1]
       IN  /\ run_configs' = Append(run_configs,
                 _create_modified_system_config(system_config[1], job.provider_id, job.model))
           /\ \E outcome \in EngineOutcomes :
                 sweep_results' = Append(sweep_results, _run_single_evaluation(job, outcome))
    /\ UNCHANGED << pc, providers_config, system_config, provider_model_configs >>
    /\ UNCHANGED << data, model, validation_error, key_extractor, category_stats, stats_calls, results >>
    /\ UNCHANGED << runVars, evalVars, extVars >>

\* run_evaluations returns runner.results after the last job.
RunEvaluationsReturn ==
    /\ pc = "run"
    /\ Len(sweep_results) = Len(provider_model_configs)
    /\ pc' = "swept"
    /\ UNCHANGED sweepVars
    /\ UNCHANGED << data, model, validation_error, key_extractor, category_stats, stats_calls, results >>
    /\ UNCHANGED << runVars, evalVars, extVars >>

NextSweep ==
    \/ CreateProviderModelConfigs
    \/ RunSingleEvaluation
    \/ RunEvaluationsReturn

SpecSweep == InitSweep /\ [][NextSweep]_vars

\* The (provider, model) pairs of a catalog in catalog order, written out for
\* the catalogs of up to three entries.
RECURSIVE PairsOfEntry(_, _)
PairsOfEntry(entry, i) ==
    IF entry.key = SettingsKey \/ i > Len(entry.value.models) THEN <<>>
    ELSE << <<entry.key, entry.value.models[i]>> >> \o PairsOfEntry(entry, i + 1)

CatalogPairs ==
    LET c == providers_config
        of(i) == IF i <= Len(c) THEN PairsOfEntry(c[i], 1) ELSE <<>>
    IN  of(1) \o of(2) \o of(3)

\* The catalog was expanded.
Expanded == pc \in {"run", "swept"}

\* C27: the jobs of an expanded catalog are its (provider, model) pairs, one
\* job per pair in catalog order, and no job belongs to the settings key.
C27_OneJobPerPairInOrder ==
    Expanded =>
        /\ Len(provider_model_configs) = Len(CatalogPairs)
        /\ \A i \in 1..Len(provider_model_configs) :
              /\ provider_model_configs[i].provider_name = CatalogPairs[i][1]
              /\ provider_model_configs[i].provider_id = CatalogPairs[i][1]
              /\ provider_model_configs[i].model = CatalogPairs[i][2]
              /\ provider_model_configs[i].provider_name # SettingsKey

\* The catalog of the example, with the settings between the providers:
\* three jobs (openai, m1), (openai, m2), (watsonx, m3).
C27_Witness ==
    /\ Expanded
    /\ Len(providers_config) = 3
    /\ providers_config[2].key = SettingsKey
    /\ Len(provider_model_configs) = 3
    /\ provider_model_configs[1].provider_name = <<"o", "a", "i">>
    /\ provider_model_configs[2].provider_name = <<"o", "a", "i">>
    /\ provider_model_configs[1].model # provider_model_configs[2].model
    /\ provider_model_configs[3].provider_name = <<"w", "x">>

\* The summary has the three counts.
WellFormedSummary(sm) == sm # None /\ {"PASS", "FAIL", "ERROR"} \subseteq DOMAIN sm[1]

\* C28: every job record is that of the job at its position; a record is a
\* success only with a summary of all three counts, every other record has
\* success false, a non-empty error and no summary; and a finished sweep has
\* one record per job, whichever jobs failed.
C28_FailedJobsRecorded ==
    /\ Len(sweep_results) <= Len(provider_model_configs)
    /\ \A i \in 1..Len(sweep_results) :
          /\ sweep_results[i].provider_id = provider_model_configs[i].provider_id
          /\ sweep_results[i].model = provider_model_configs[i].model
          /\ sweep_results[i].success =>
                WellFormedSummary(sweep_results[i].summary) /\ sweep_results[i].error = None
          /\ ~sweep_results[i].success =>
                /\ sweep_results[i].summary = None
                /\ sweep_results[i].error \notin {None, Some("")}
    /\ pc = "swept" => Len(sweep_results) = Len(provider_model_configs)

\* A sweep of three jobs ended: the first returned no result, the second a
\* summary without ERROR, the third succeeded.
C28_Witness ==
    /\ pc = "swept"
    /\ Len(sweep_results) = 3
    /\ sweep_results[1].error = Some("Evaluation returned None (failed)")
    /\ sweep_results[2].error = Some("Invalid summary structure")
    /\ sweep_results[3].success

\* C29: the run configuration of every job equals the base configuration but
\* for the agent's provider and model, so the judge model's provider, model and
\* temperature are those of the base in every job; and no step of the sweep
\* changes the base configuration.
C29_OnlyAgentOverridden ==
    [][ /\ system_config' = system_config
        /\ \A i \in 1..Len(run_configs') :
              /\ run_configs'[i].llm = system_config[1].llm
              /\ [ run_configs'[i] EXCEPT !.api.provider = system_config[1].api.provider,
                                          !.api.model = system_config[1].api.model ]
                 = system_config[1] ]_vars

\* The second job ran with the agent of its own provider and model, unlike the
\* base configuration's, and with the judge model of the base.
C29_Witness ==
    /\ Len(run_configs) >= 2
    /\ system_config[1].api.enabled
    /\ run_configs[2].api.provider = provider_model_configs[2].provider_id
    /\ run_configs[2].api.model = provider_model_configs[2].model
    /\ run_configs[2].api.provider # system_config[1].api.provider
    /\ run_configs[2].llm = system_config[1].llm
    /\ run_configs[1].llm = run_configs[2].llm

\* The characters of the provider_id and model strings of the path checks.
PathAlphabet == {".", "/", "\\", ":", "e"}

PathStrings == SeqsUpTo(PathAlphabet, MaxIdLen)

ShortPathStrings == { p \in PathStrings : Len(p) + 1 < MaxIdLen }

\* "../../etc", "../../../etc/passwd", "open..ai//test" and
\* "gpt:4o-mini/special" of the tests, abbreviated, and a harmless name.
HostileIds ==
    { <<".", ".", "/", ".", ".", "/", "e">>,
      <<".", ".", "/", ".", ".", "/", ".", ".", "/", "e", "/", "p">>,
      <<"o", ".", ".", "a", "/", "/", "t">>,
      <<"g", ":", "4", "/", "s">>,
      <<"e">> }

\* _run_single_evaluation is called for one job of any provider_id and model.
InitPaths ==
    /\ RunnerIdle
    /\ ExtIdle
    /\ results = <<>>
    /\ pc = "run"
    /\ data = None
    /\ model = None
    /\ validation_error = None
    /\ key_extractor = "none"
    /\ category_stats = None
    /\ stats_calls = 0
    /\ providers_config = <<>>
    /\ system_config \in { Some(c) : c \in SystemConfigs }
    /\ \E p, m \in PathStrings \cup HostileIds :
          /\ \/ p \in HostileIds
             \/ m \in HostileIds
             \/ p \in ShortPathStrings /\ m \in ShortPathStrings
          /\ provider_model_configs = << [provider_name |-> <<"e">>, provider_id |-> p, model |-> m] >>
    /\ sweep_results = <<>>
    /\ run_configs = <<>>

NextPaths ==
    \/ RunSingleEvaluation
    \/ RunEvaluationsReturn

SpecPaths == InitPaths /\ [][NextPaths]_vars

IsSeparatorChar(ch) == ch \in {"/", "\\"}

\* The components of a path, "/" and "\" both taken as separators.
RECURSIVE Components(_, _, _)
Components(path, i, current) ==
    IF i > Len(path) THEN (IF current = <<>> THEN <<>> ELSE <<current>>)
    ELSE IF IsSeparatorChar(path[i])
        THEN (IF current = <<>> THEN <<>> ELSE <<current>>) \o Components(path, i + 1, <<>>)
    ELSE Components(path, i + 1, Append(current, path[i]))

\* Path.resolve(): "." dropped, ".." removing the component before it.
RECURSIVE Resolve(_, _, _)
Resolve(components, i, resolved) ==
    IF i > Len(components) THEN resolved
    ELSE IF components[i] = <<".">> THEN Resolve(components, i + 1, resolved)
    ELSE IF components[i] = <<".", ".">>
        THEN Resolve(components, i + 1,
                 IF resolved = <<>> THEN <<>> ELSE SubSeq(resolved, 1, Len(resolved) - 1))
    ELSE Resolve(components, i + 1, Append(resolved, components[i]))

Resolved(path) == Resolve(Components(path, 1, <<>>), 1, <<>>)

\* Path.is_relative_to
IsRelativeTo(path, base) ==
    /\ Len(Resolved(base)) <= Len(Resolved(path))
    /\ SubSeq(Resolved(path), 1, Len(Resolved(base))) = Resolved(base)

HasDotDot(path) == \E i \in 1..(Len(path) - 1) : path[i] = "." /\ path[i + 1] = "."

\* C30: whatever the provider_id and the model of a job, its output
\* directory, once resolved, lies under the base output directory and ".."
\* does not occur in it.
C30_OutputDirContained ==
    \A i \in 1..Len(sweep_results) :
        /\ IsRelativeTo(sweep_results[i].output_dir, OutputBase)
        /\ ~HasDotDot(sweep_results[i].output_dir)

\* The job of provider_id "../../etc" ran and its directory lies under the
\* base.
C30_Witness ==
    /\ Len(sweep_results) = 1
    /\ sweep_results[1].provider_id = <<".", ".", "/", ".", ".", "/", "e">>
    /\ sweep_results[1].model = <<".", ".", "\\">>
    /\ Len(Resolved(sweep_results[1].output_dir)) = Len(Resolved(OutputBase)) + 2

\* The model names of the isolation check: up to MaxIdLen - 1 characters of a
\* letter, the separator and the colon.
IsolationIds == { m \in SeqsUpTo({"e", "/", ":"}, MaxIdLen) : 0 < Len(m) /\ Len(m) < MaxIdLen }

\* A sweep of two different (provider, model) jobs is about to run.
InitIsolation ==
    /\ RunnerIdle
    /\ ExtIdle
    /\ results = <<>>
    /\ pc = "run"
    /\ data = None
    /\ model = None
    /\ validation_error = None
    /\ key_extractor = "none"
    /\ category_stats = None
    /\ stats_calls = 0
    /\ providers_config = <<>>
    /\ system_config \in { Some(c) : c \in SystemConfigs }
    /\ \E p \in ProviderNames, m1, m2 \in IsolationIds :
          /\ m1 # m2
          /\ provider_model_configs = << [provider_name |-> p, provider_id |-> p, model |-> m1],
                                         [provider_name |-> p, provider_id |-> p, model |-> m2] >>
    /\ sweep_results = <<>>
    /\ run_configs = <<>>

SpecIsolation == InitIsolation /\ [][NextPaths]_vars

\* C31: two jobs of a sweep that differ in provider or model have different
\* output directories.
C31_OutputDirsIsolated ==
    \A i, j \in 1..Len(sweep_results) :
        (sweep_results[i].provider_id # sweep_results[j].provider_id
            \/ sweep_results[i].model # sweep_results[j].model)
        => sweep_results[i].output_dir # sweep_results[j].output_dir

\* ---------------------------------------------------------------------------
\* Multi-provider sweep: statistical comparison
\* ---------------------------------------------------------------------------

\* Rates and mean scores in hundredths: 0 is 0.0 and 100 is 1.0; values
\* outside that range are rates that were not normalised.
Rates == {-50, 0, 50, 100, 150}

\* The arguments of _calculate_composite_score.
ScoreArguments ==
    [ pass_rate : Rates, error_rate : Rates, avg_score : Rates, success_rate : Rates ]

\* The composite score without the clamp.
_calculate_composite_score_unclamped(a) ==
    40 * a.pass_rate + 20 * (100 - a.error_rate) + 30 * a.avg_score + 10 * a.success_rate

Clamp(x, low, high) == IF x < low THEN low ELSE IF x > high THEN high ELSE x

\* MultiProviderEvaluationRunner._calculate_composite_score, in
\* ten-thousandths: the weighted sum of pass rate, inverse error rate, mean
\* score and success rate, clamped to [0, 1].
_calculate_composite_score(a) ==
    Clamp(40 * a.pass_rate + 20 * (100 - a.error_rate) + 30 * a.avg_score + 10 * a.success_rate,
          0, 10000)

\* The comparator is asked for a composite score.
InitAnalysis ==
    /\ RunnerIdle
    /\ SweepIdle
    /\ results = <<>>
    /\ pc = "analysis"
    /\ data = None
    /\ model = None
    /\ validation_error = None
    /\ key_extractor = "none"
    /\ category_stats = None
    /\ stats_calls = 0
    /\ call \in { Some([op |-> "_calculate_composite_score", args |-> a]) : a \in ScoreArguments }
    /\ returned = None
    /\ os_environ = << >>
    /\ effects = <<>>

\* _calculate_composite_score(pass_rate, error_rate, avg_score, success_rate)
CalculateCompositeScore ==
    /\ pc = "analysis"
    /\ call[1].op = "_calculate_composite_score"
    /\ returned = None
    /\ returned' = Some(_calculate_composite_score(call[1].args))
    /\ effects' = Append(effects, "_calculate_composite_score")
    /\ UNCHANGED << pc, call, os_environ, results >>
    /\ UNCHANGED << runVars, evalVars, sweepVars >>
    /\ UNCHANGED << data, model, validation_error, key_extractor, category_stats, stats_calls >>

NextAnalysis == CalculateCompositeScore

SpecAnalysis == InitAnalysis /\ [][NextAnalysis]_vars

\* A composite score was calculated.
Scored == call # None /\ call[1].op = "_calculate_composite_score" /\ returned # None

\* C32: the composite score lies in [0, 1]; it is 1.0 for pass rate 1, error
\* rate 0, mean score 1 and success rate 1, and 0.0 for pass rate 0, error
\* rate 1, mean score 0 and success rate 0.
C32_CompositeScoreRange ==
    Scored =>
        /\ 0 <= returned[1] /\ returned[1] <= 10000
        /\ call[1].args = [pass_rate |-> 100, error_rate |-> 0, avg_score |-> 100, success_rate |-> 100]
              => returned[1] = 10000
        /\ call[1].args = [pass_rate |-> 0, error_rate |-> 100, avg_score |-> 0, success_rate |-> 0]
              => returned[1] = 0

\* The score of rates that were not normalised was calculated and clamped.
C32_Witness ==
    /\ Scored
    /\ call[1].args = [pass_rate |-> 150, error_rate |-> 0, avg_score |-> 100, success_rate |-> 100]
    /\ returned[1] = 10000

\* The perfect input scored 1.0.
C32_WitnessPerfect ==
    /\ Scored
    /\ call[1].args = [pass_rate |-> 100, error_rate |-> 0, avg_score |-> 100, success_rate |-> 100]
    /\ returned[1] = 10000

\* ---------------------------------------------------------------------------
\* lightspeed_evaluation: MetricsEvaluator
\* ---------------------------------------------------------------------------

\* The keys of MetricsEvaluator.handlers.
Handlers ==
    { <<"r", "a", "g", "a", "s">>, <<"d", "e", "e", "p", "e", "v", "a", "l">>,
      <<"c", "u", "s", "t", "o", "m">>, <<"s", "c", "r", "i", "p", "t">> }

\* The metric identifiers of the requests: "ragas:f", "custom:a:b",
\* "script:a", "other:m", "ragas" and "".
MetricIdentifiers ==
    { <<"r", "a", "g", "a", "s", ":", "f">>,
      <<"c", "u", "s", "t", "o", "m", ":", "a", ":", "b">>,
      <<"s", "c", "r", "i", "p", "t", ":", "a">>,
      <<"o", "t", "h", "e", "r", ":", "m">>,
      <<"r", "a", "g", "a", "s">>,
      <<>> }

\* Scores and thresholds in hundredths.
Scores == {0, 49, 50, 80}

Thresholds == {0, 50, 80}

\* What handler.evaluate does: it raises an Exception or an exception that is
\* none (KeyboardInterrupt, asyncio.CancelledError: subclasses of
\* BaseException only), or returns (score, reason) where the score may be
\* None.
HandlerOutcomes ==
    [ raises : {TRUE}, kind : {"Exception", "BaseException"}, score : {None},
      reason : {<<"handler failed">>} ]
    \cup [ raises : {FALSE}, kind : {"none"}, score : {None} \cup { Some(sc) : sc \in Scores },
           reason : {<<"reason">>} ]

\* What the constructor EvaluationResult(...) does with the arguments it is
\* given, inside the try block and inside the except handler: the object is
\* built, or the constructor raises.
ConstructorOutcomes == [ in_try : BOOLEAN, in_handler : BOOLEAN ]

\* What metric_manager.get_effective_threshold does: it raises, or returns a
\* threshold or None.
ThresholdOutcomes ==
    [ raises : {TRUE}, threshold : {None} ]
    \cup [ raises : {FALSE}, threshold : {None} \cup { Some(t) : t \in Thresholds } ]

\* request.conv_data: the conversation data with its conversation_group_id, or
\* None.
ConvData == {None, Some("conv1")}

\* The position of the first ":" of s, or 0.
FirstColon(s) ==
    IF \E i \in 1..Len(s) : s[i] = ":"
        THEN CHOOSE i \in 1..Len(s) : s[i] = ":" /\ \A j \in 1..(i - 1) : s[j] # ":"
        ELSE 0

\* MetricsEvaluator._create_error_result (lines 138-153): the ERROR result, or
\* the AttributeError of request.conv_data.conversation_group_id (line 143)
\* when conv_data is None, or the exception of the constructor when the
\* result is not built.
_create_error_result(request, reason, built) ==
    IF request.conv_data = None
        THEN [ raised |-> Some(<<"Exception",
                                 "'NoneType' object has no attribute 'conversation_group_id'">>),
               value |-> None ]
    ELSE IF built
        THEN [ raised |-> None,
               value |-> Some([ conversation_group_id |-> request.conv_data[1],
                                metric_identifier |-> request.metric_identifier,
                                result |-> "ERROR",
                                score |-> None,
                                threshold |-> None,
                                reason |-> reason ]) ]
        ELSE [ raised |-> Some(<<"Exception", "EvaluationResult not constructed">>),
               value |-> None ]

\* _determine_status with a score equal to the threshold failing.
_determine_status_strict(score, threshold) ==
    IF score > (IF threshold = None THEN 50 ELSE threshold[1]) THEN "PASS" ELSE "FAIL"

\* MetricsEvaluator._determine_status
_determine_status(score, threshold) ==
    LET effective == IF threshold = None THEN 50 ELSE threshold[1]
    IN  IF score >= effective THEN "PASS" ELSE "FAIL"

\* The try block of evaluate_metric (lines 59-129): what it returns (None, or
\* a result) or the exception that leaves it.  The summary of a conversation
\* request reads request.conv_data.conversation_group_id (line 64) before
\* anything else, and the result's construction reads it again (line 117).
evaluate_metric_try(request, api_enabled, h, t, c) ==
    LET colon == FirstColon(request.metric_identifier)
        framework == SubSeq(request.metric_identifier, 1, colon - 1)
        exception(msg) == [returned |-> None, raised |-> Some(<<"Exception", msg>>)]
        error(reason) ==
            LET r == _create_error_result(request, reason, c.in_try)
            IN  IF r.raised = None THEN [returned |-> Some(r.value), raised |-> None]
                ELSE [returned |-> None, raised |-> r.raised]
        attribute_error ==
            exception("'NoneType' object has no attribute 'conversation_group_id'")
    IN  IF request.is_conversation /\ request.conv_data = None THEN attribute_error
        ELSE IF colon = 0 THEN exception("not enough values to unpack (expected 2, got 1)")
        ELSE IF framework = <<"s", "c", "r", "i", "p", "t">> /\ ~api_enabled
            THEN [returned |-> Some(None), raised |-> None]
        ELSE IF framework \notin Handlers THEN error(<<"Unsupported framework">>)
        ELSE IF h.raises
            THEN [returned |-> None, raised |-> Some(<<h.kind, "handler failed">>)]
        ELSE IF h.score = None THEN error(h.reason)
        ELSE IF t.raises THEN exception("threshold failed")
        ELSE IF request.conv_data = None THEN attribute_error
        ELSE IF ~c.in_try THEN exception("EvaluationResult not constructed")
        ELSE [returned |-> Some(Some([ conversation_group_id |-> request.conv_data[1],
                                       metric_identifier |-> request.metric_identifier,
                                       result |-> _determine_status(h.score[1], t.threshold),
                                       score |-> h.score,
                                       threshold |-> t.threshold,
                                       reason |-> h.reason ])),
              raised |-> None]

\* MetricsEvaluator.evaluate_metric(request), the handler doing h, the metric
\* manager t and the constructions of results c: what it returns (None, or a
\* result) and what it raises.  The handler of line 131 catches an Exception
\* of the try block and returns _create_error_result(...), whose own
\* exception nothing catches.
evaluate_metric(request, api_enabled, h, t, c) ==
    LET body == evaluate_metric_try(request, api_enabled, h, t, c)
    IN  IF body.raised = None \/ body.raised[1][1] # "Exception" THEN body
        ELSE LET r == _create_error_result(request,
                          <<"Evaluation error">> \o Tail(body.raised[1]), c.in_handler)
             IN  IF r.raised = None THEN [returned |-> Some(r.value), raised |-> None]
                 ELSE [returned |-> None, raised |-> r.raised]

\* A request is about to be evaluated; data holds the system configuration's
\* api.enabled.
InitMetrics ==
    /\ RunnerIdle
    /\ SweepIdle
    /\ results = <<>>
    /\ pc = "evaluate_metric"
    /\ data \in { Some([api_enabled |-> e]) : e \in BOOLEAN }
    /\ model = None
    /\ validation_error = None
    /\ key_extractor = "none"
    /\ category_stats = None
    /\ stats_calls = 0
    /\ call \in { Some([op |-> "evaluate_metric",
                        args |-> [metric_identifier |-> id, is_conversation |-> c,
                                  conv_data |-> cd]]) :
                    id \in MetricIdentifiers, c \in BOOLEAN, cd \in ConvData }
    /\ returned = None
    /\ os_environ = << >>
    /\ effects = <<>>

\* evaluate_metric(request): effects records what the handler and the metric
\* manager did when they were called; a call that raises returns nothing.
EvaluateMetric ==
    /\ pc = "evaluate_metric"
    /\ \E h \in HandlerOutcomes, t \in ThresholdOutcomes, c \in ConstructorOutcomes :
          LET request == call[1].args
              colon == FirstColon(request.metric_identifier)
              framework == SubSeq(request.metric_identifier, 1, colon - 1)
              routed == /\ ~(request.is_conversation /\ request.conv_data = None)
                        /\ colon # 0
                        /\ framework \in Handlers
                        /\ ~(framework = <<"s", "c", "r", "i", "p", "t">> /\ ~data[1].api_enabled)
              out == evaluate_metric(request, data[1].api_enabled, h, t, c)
          IN  /\ returned' = out.returned
              /\ raised' = out.raised
              /\ effects' = IF ~routed THEN <<>>
                            ELSE IF h.raises \/ h.score = None
                                THEN << [step |-> "evaluate", raises |-> h.raises, value |-> h.score] >>
                            ELSE << [step |-> "evaluate", raises |-> h.raises, value |-> h.score],
                                    [step |-> "get_effective_threshold", raises |-> t.raises,
                                     value |-> t.threshold] >>
    /\ pc' = "evaluated"
    /\ UNCHANGED << call, os_environ, results, data, model, validation_error, key_extractor >>
    /\ UNCHANGED << category_stats, stats_calls, sweepVars, evalVars >>
    /\ UNCHANGED << configs, judge_manager, conversation_uuid, agent_calls, idx, client_created >>
    /\ UNCHANGED << client_closed, summary >>

NextMetrics == EvaluateMetric

SpecMetrics == InitMetrics /\ [][NextMetrics]_vars

\* evaluate_metric returned a result with a status from the threshold.
StatusDetermined ==
    /\ pc = "evaluated"
    /\ returned # None /\ returned[1] # None
    /\ returned[1][1].result \in {"PASS", "FAIL"}

\* C34: the status is PASS when the score is at least the threshold, a score
\* equal to the threshold included, and FAIL otherwise; without a threshold
\* the threshold is 0.5.
C34_ThresholdStatus ==
    StatusDetermined =>
        LET score == effects[1].value[1]
            threshold == IF effects[2].value = None THEN 50 ELSE effects[2].value[1]
        IN  /\ (score >= threshold) <=> (returned[1][1].result = "PASS")
            /\ (score < threshold) <=> (returned[1][1].result = "FAIL")

\* A score equal to its threshold passed.
C34_Witness ==
    /\ StatusDetermined
    /\ effects[1].value = Some(80)
    /\ effects[2].value = Some(80)
    /\ returned[1][1].result = "PASS"

\* A score of 0.49 without a threshold failed.
C34_WitnessDefault ==
    /\ StatusDetermined
    /\ effects[1].value = Some(49)
    /\ effects[2].value = None
    /\ returned[1][1].result = "FAIL"

\* evaluate_metric is over.
MetricEvaluated == pc = "evaluated"

\* The request's metric is "script:a" and the API is disabled.
ScriptMetricSkipped ==
    /\ call[1].args.metric_identifier = <<"s", "c", "r", "i", "p", "t", ":", "a">>
    /\ ~data[1].api_enabled

\* The request cannot be evaluated: no framework prefix ("ragas", ""), an
\* unsupported framework ("other:m"), a handler or a metric manager that
\* raised, or a handler that returned no score.
EvaluationFailed ==
    \/ call[1].args.metric_identifier \in { <<"r", "a", "g", "a", "s">>, <<>>,
                                            <<"o", "t", "h", "e", "r", ":", "m">> }
    \/ \E i \in 1..Len(effects) : effects[i].raises
    \/ Len(effects) >= 1 /\ effects[1].value = None

IsErrorResult(r) == r.result = "ERROR" /\ r.score = None /\ r.threshold = None

\* C40: evaluate_metric never raises; a request that cannot be evaluated
\* yields an ERROR result without score and threshold; a PASS or FAIL result
\* has a score; and no result is returned exactly for a script metric while
\* the API is disabled.
C40_EvaluateMetricNeverRaises ==
    MetricEvaluated =>
        /\ raised = None
        /\ returned # None
        /\ (returned[1] = None) <=> ScriptMetricSkipped
        /\ (EvaluationFailed /\ ~ScriptMetricSkipped) =>
              returned[1] # None /\ IsErrorResult(returned[1][1])
        /\ (returned[1] # None /\ returned[1][1].result \in {"PASS", "FAIL"}) =>
              returned[1][1].score # None
        /\ returned[1] # None => returned[1][1].result \in {"PASS", "FAIL", "ERROR"}

\* ---------------------------------------------------------------------------
\* agent_eval: ScriptRunner.run_script and the process environment
\* ---------------------------------------------------------------------------

\* The environments the process may start with.
\* A path is the sequence of its components, "/" first when it is absolute.
Environments ==
    { [PATH |-> <<"/", "bin">>],
      [PATH |-> <<"/", "bin">>, KUBECONFIG |-> <<"/", "old", "kubeconfig">>] }

\* The kubeconfig_file arguments: none, or an existing file given by an
\* absolute or a relative path.
KubeconfigFiles ==
    {None, Some(<<"/", "kube", "one">>), Some(<<"/", "kube", "two">>), Some(<<"kube", "one">>)}

\* The working directory of the process.
Cwd == <<"/", "work">>

\* Path.absolute(): a relative path is joined to the working directory.
Absolute(path) == IF path # <<>> /\ path[1] = "/" THEN path ELSE Cwd \o path

\* d with d[k] = v
SetItem(d, k, v) == [x \in DOMAIN d \cup {k} |-> IF x = k THEN v ELSE d[x]]

\* Lines 40-44 working on os.environ itself.
PrepareEnvironmentInPlace(environ, kubeconfig_file) ==
    LET env == IF kubeconfig_file = None THEN environ
               ELSE SetItem(environ, "KUBECONFIG", Absolute(kubeconfig_file[1]))
    IN  [env |-> env, environ |-> env]

\* Lines 40-44: env is a copy of os.environ, KUBECONFIG is set in the copy to
\* the absolute path of the kubeconfig file.
PrepareEnvironment(environ, kubeconfig_file) ==
    [ env |-> IF kubeconfig_file = None THEN environ
              ELSE SetItem(environ, "KUBECONFIG", Absolute(kubeconfig_file[1])),
      environ |-> environ ]

\* What run_script did outside the process when it met env: chmod is called
\* for an existing script, the environment is prepared after chmod, and
\* subprocess.run is called with it unless the kubeconfig file is missing.
ScriptEffects(env, environ, kubeconfig_file) ==
    [ script |-> env,
      chmod |-> env \notin {"exists_error", "missing"},
      subprocess |-> env \in {"subprocess_error", "exec_error", "rc0", "rc1"},
      env |-> IF env \in {"subprocess_error", "exec_error", "rc0", "rc1"}
                 THEN Some(PrepareEnvironment(environ, kubeconfig_file).env)
                 ELSE None ]

\* The process is about to run scripts.
InitScript ==
    /\ RunnerIdle
    /\ SweepIdle
    /\ results = <<>>
    /\ pc = "scripts"
    /\ data = None
    /\ model = None
    /\ validation_error = None
    /\ key_extractor = "none"
    /\ category_stats = None
    /\ stats_calls = 0
    /\ call = None
    /\ returned = None
    /\ os_environ \in Environments
    /\ effects = <<>>

\* ScriptRunner.run_script(script_file, check_return_code, kubeconfig_file)
RunScript ==
    /\ pc = "scripts"
    /\ Len(effects) < MaxScriptRuns
    /\ \E env \in ScriptEnvs, check_return_code \in BOOLEAN, kubeconfig_file \in KubeconfigFiles :
          LET kubeconfig == IF env = "kubeconfig_missing" THEN Some(<<"/", "kube", "missing">>)
                            ELSE kubeconfig_file
              out == run_script(env, check_return_code)
          IN  /\ call' = Some([op |-> "run_script",
                               args |-> [script |-> env, check_return_code |-> check_return_code,
                                         kubeconfig_file |-> kubeconfig]])
              /\ os_environ' = IF env \in {"exists_error", "missing", "chmod_error", "kubeconfig_missing"}
                                  THEN os_environ
                                  ELSE PrepareEnvironment(os_environ, kubeconfig).environ
              /\ effects' = Append(effects, ScriptEffects(env, os_environ, kubeconfig))
              /\ raised' = IF out.raised THEN Some(<<out.type>> \o out.msg) ELSE None
              /\ returned' = IF out.raised THEN None ELSE Some(out.returncode)
    /\ UNCHANGED << pc, results, data, model, validation_error, key_extractor >>
    /\ UNCHANGED << category_stats, stats_calls, sweepVars, evalVars >>
    /\ UNCHANGED << configs, judge_manager, conversation_uuid, agent_calls, idx, client_created >>
    /\ UNCHANGED << client_closed, summary >>

NextScript == RunScript

SpecScript == InitScript /\ [][NextScript]_vars

\* C35: no run of a script changes the environment of the process, and the
\* environment a script is given is that of the process with KUBECONFIG set to
\* the file of this run alone, as an absolute path: the credential of one run
\* is not seen by another.
C35_EnvironmentNotMutated ==
    [][ /\ os_environ' = os_environ
        /\ LET run == effects'[Len(effects')]
               file == call'[1].args.kubeconfig_file
           IN  run.env # None =>
                 /\ DOMAIN run.env[1] = DOMAIN os_environ \cup (IF file = None THEN {} ELSE {"KUBECONFIG"})
                 /\ \A k \in DOMAIN run.env[1] :
                       run.env[1][k] =
                          IF k = "KUBECONFIG" /\ file # None
                             THEN (IF file[1][1] = "/" THEN file[1] ELSE <<"/", "work">> \o file[1])
                             ELSE os_environ[k] ]_vars

\* Two scripts ran, the first with a kubeconfig file and the second without:
\* the second did not see the file and the process has no KUBECONFIG.
C35_Witness ==
    /\ Len(effects) = 2
    /\ effects[1].env # None /\ "KUBECONFIG" \in DOMAIN effects[1].env[1]
    /\ effects[1].env[1].KUBECONFIG = <<"/", "work", "kube", "one">>
    /\ call[1].args.kubeconfig_file = None
    /\ effects[2].env # None /\ "KUBECONFIG" \notin DOMAIN effects[2].env[1]
    /\ "KUBECONFIG" \notin DOMAIN os_environ

\* C36: run_script on a missing script raises ScriptExecutionError with neither
\* chmod nor a subprocess; and whatever fails while an existing script is
\* run, the exception raised is a ScriptExecutionError.
C36_ScriptErrorsWrapped ==
    (call # None /\ call[1].op = "run_script") =>
        /\ call[1].args.script = "missing" =>
              /\ raised # None /\ raised[1][1] = "ScriptExecutionError"
              /\ ~effects[Len(effects)].chmod
              /\ ~effects[Len(effects)].subprocess
        /\ call[1].args.script \in {"chmod_error", "subprocess_error", "exec_error",
                                     "kubeconfig_missing"} =>
              raised # None
        /\ raised # None => raised[1][1] = "ScriptExecutionError" /\ returned = None
        /\ raised = None => returned # None

\* ---------------------------------------------------------------------------
\* agent_eval: AgentHttpClient.query_agent
\* ---------------------------------------------------------------------------

\* The bodies of a reply: not JSON, an object without a response field, an
\* object whose response is null, or one whose response is a text.
ReplyBodies ==
    { [json |-> FALSE, has_response |-> FALSE, response |-> None],
      [json |-> TRUE, has_response |-> FALSE, response |-> None],
      [json |-> TRUE, has_response |-> TRUE, response |-> None] }
    \cup { [json |-> TRUE, has_response |-> TRUE, response |-> Some(r)] : r \in Responses }

\* What client.post meets: a timeout, another transport error, or a reply.
HttpReplies ==
    [ kind : {"timeout", "connect_error"}, status : {0},
      body : { [json |-> FALSE, has_response |-> FALSE, response |-> None] } ]
    \cup [ kind : {"reply"}, status : {200, 201, 404, 500}, body : ReplyBodies ]

\* Response.raise_for_status passes for 2xx only.
IsSuccess(status) == 200 <= status /\ status <= 299

\* query_agent returning an empty text for a reply without a response field.
query_agent_lenient(reply) ==
    IF reply.kind = "timeout"
        THEN [returned |-> None, raised |-> Some(<<"AgentAPIError">> \o query_agent_error("timeout"))]
    ELSE IF reply.kind = "connect_error"
        THEN [returned |-> None, raised |-> Some(<<"AgentAPIError">> \o query_agent_error("other_error"))]
    ELSE IF ~IsSuccess(reply.status)
        THEN [returned |-> None, raised |-> Some(<<"AgentAPIError">> \o query_agent_error("status_error"))]
    ELSE IF ~reply.body.json
        THEN [returned |-> None,
              raised |-> Some(<<"AgentAPIError", "Unexpected error querying agent", "invalid JSON">>)]
    ELSE IF ~reply.body.has_response THEN [returned |-> Some(<<>>), raised |-> None]
    ELSE IF reply.body.response = None THEN [returned |-> Some(<<>>), raised |-> None]
    ELSE [returned |-> Some(query_agent_ok(reply.body.response[1])), raised |-> None]

\* AgentHttpClient.query_agent when client.post meets reply: the text it
\* returns, or the type and message of the exception it raises.
query_agent(reply) ==
    IF reply.kind = "timeout"
        THEN [returned |-> None, raised |-> Some(<<"AgentAPIError">> \o query_agent_error("timeout"))]
    ELSE IF reply.kind = "connect_error"
        THEN [returned |-> None, raised |-> Some(<<"AgentAPIError">> \o query_agent_error("other_error"))]
    ELSE IF ~IsSuccess(reply.status)
        THEN [returned |-> None, raised |-> Some(<<"AgentAPIError">> \o query_agent_error("status_error"))]
    ELSE IF ~reply.body.json
        THEN [returned |-> None,
              raised |-> Some(<<"AgentAPIError", "Unexpected error querying agent", "invalid JSON">>)]
    ELSE IF ~reply.body.has_response
        THEN [returned |-> None, raised |-> Some(<<"AgentAPIError">> \o query_agent_error("missing_field"))]
    ELSE IF reply.body.response = None
        THEN [returned |-> None,
              raised |-> Some(<<"AgentAPIError", "Unexpected error querying agent",
                                "'NoneType' object has no attribute 'strip'">>)]
    ELSE [returned |-> Some(query_agent_ok(reply.body.response[1])), raised |-> None]

\* A client is about to be asked a query.
InitAgent ==
    /\ RunnerIdle
    /\ SweepIdle
    /\ results = <<>>
    /\ pc = "query_agent"
    /\ data = None
    /\ model = None
    /\ validation_error = None
    /\ key_extractor = "none"
    /\ category_stats = None
    /\ stats_calls = 0
    /\ call \in { Some([op |-> "query_agent",
                        args |-> [query |-> q, provider |-> p, model |-> m, timeout |-> 300]]) :
                    q \in {"query", "other query"}, p \in {"openai", "watsonx"},
                    m \in {"gpt-4o-mini", "granite"} }
    /\ returned = None
    /\ os_environ = << >>
    /\ effects = <<>>

\* query_agent(query, provider, model, timeout): effects records the reply
\* the POST met.
QueryAgentCall ==
    /\ pc = "query_agent"
    /\ \E reply \in HttpReplies :
          /\ effects' = << reply >>
          /\ returned' = query_agent(reply).returned
          /\ raised' = query_agent(reply).raised
    /\ pc' = "queried"
    /\ UNCHANGED << call, os_environ, results, data, model, validation_error, key_extractor >>
    /\ UNCHANGED << category_stats, stats_calls, sweepVars, evalVars >>
    /\ UNCHANGED << configs, judge_manager, conversation_uuid, agent_calls, idx, client_created >>
    /\ UNCHANGED << client_closed, summary >>

NextAgent == QueryAgentCall

SpecAgent == InitAgent /\ [][NextAgent]_vars

\* The reply is a 2xx whose body has a response field.
GoodReply(reply) ==
    /\ reply.kind = "reply"
    /\ reply.status \in 200..299
    /\ reply.body.json /\ reply.body.has_response

\* C37: query_agent either returns a text, and then the reply was a 2xx with
\* a response field whose text it is, or it raises AgentAPIError; a timeout,
\* a status outside 2xx, a reply without response field and every other
\* failure raise AgentAPIError and return nothing.
C37_QueryAgentTwoOutcomes ==
    pc = "queried" =>
        /\ (returned # None) # (raised # None)
        /\ raised # None => raised[1][1] = "AgentAPIError"
        /\ returned # None =>
              /\ GoodReply(effects[1])
              /\ effects[1].body.response # None
              /\ returned[1] = Strip(effects[1].body.response[1])
        /\ ~GoodReply(effects[1]) => raised # None /\ raised[1][1] = "AgentAPIError"

\* A 200 reply without a response field raised AgentAPIError.
C37_Witness ==
    /\ pc = "queried"
    /\ effects[1].kind = "reply" /\ effects[1].status = 200
    /\ effects[1].body.json /\ ~effects[1].body.has_response
    /\ raised # None /\ raised[1][1] = "AgentAPIError"
    /\ returned = None

\* A 201 reply with a response text returned the text, stripped.
C37_WitnessReturned ==
    /\ pc = "queried"
    /\ effects[1].status = 201
    /\ effects[1].body.response = Some(<<" ", "A", "b">>)
    /\ returned = Some(<<"A", "b">>)
    /\ raised = None

\* ---------------------------------------------------------------------------
\* agent_eval: the order of the steps of one evaluation
\* ---------------------------------------------------------------------------

\* The positions of the trace where a strategy was dispatched.
DispatchPositions ==
    At("script") \cup At("substring") \cup At("judge") \cup At("no_judge_manager")
        \cup At("no_expected_response") \cup At("unknown_type")

\* An exception was raised inside the strategy of the evaluation under way.
StrategyRaised ==
    \/ InTrace("script_raised")
    \/ InTrace("script_type_error")
    \/ InTrace("script_os_error")
    \/ InTrace("judge_model_error")

\* C38: within one evaluation the setup script, the agent query, the strategy
\* dispatch and the cleanup script each happen at most once and in this
\* order; the agent is queried only if the setup did not fail, a strategy is
\* dispatched only after an agent query that did not fail, and the cleanup
\* script runs only after a strategy that was dispatched and did not raise:
\* never after a failure of the setup, of the agent query or of the strategy.
C38_StepOrder ==
    /\ Cardinality(At("setup")) <= 1
    /\ Cardinality(At("query")) <= 1
    /\ Cardinality(DispatchPositions) <= 1
    /\ Cardinality(At("cleanup")) <= 1
    /\ \A i \in At("setup") : \A j \in At("query") : i < j
    /\ \A i \in At("query") : \A j \in DispatchPositions : i < j
    /\ \A i \in DispatchPositions : \A j \in At("cleanup") : i < j
    /\ InTrace("query") => ~InTrace("setup_failed")
    /\ DispatchPositions # {} => InTrace("query") /\ ~InTrace("query_failed")
    /\ InTrace("cleanup") =>
          /\ DispatchPositions # {}
          /\ ~InTrace("setup_failed")
          /\ ~InTrace("query_failed")
          /\ ~StrategyRaised

\* ---------------------------------------------------------------------------
\* lsc_agent_eval: EvaluationStats as a projection of the result list
\* ---------------------------------------------------------------------------

\* The results EvaluationResult accepts (models.py 224-249), by the fields the
\* statistics read: conversation_group is any optional string, the empty one
\* and the name "unknown" included.
ProjectionResults ==
    [ result : VALID_EVAL_RESULTS,
      eval_type : {"judge-llm", "script"},
      conversation_group : {None, Some(""), Some("conv1"), Some("unknown")} ]

\* A result list is ready for EvaluationStats.from_results.
InitProjection ==
    /\ RunnerIdle
    /\ ExtIdle
    /\ SweepIdle
    /\ pc = "stats"
    /\ results \in SeqsUpTo(ProjectionResults, MaxResults)
    /\ key_extractor = "by_conversation"
    /\ data = None
    /\ model = None
    /\ validation_error = None
    /\ category_stats = None
    /\ stats_calls = 0

NextProjection == FromResults

SpecProjection == InitProjection /\ [][NextProjection]_vars

\* The sum of the totals of the categories cats of one grouping.
RECURSIVE SumTotals(_, _)
SumTotals(stats, cats) ==
    IF cats = {} THEN 0
    ELSE LET c == CHOOSE x \in cats : TRUE
         IN  stats[c].total + SumTotals(stats, cats \ {c})

\* Every category of the grouping has passed + failed + errored = total, and
\* the totals of its categories sum to the number of results.
GroupingConsistent(stats) ==
    /\ \A c \in DOMAIN stats :
          stats[c].passed + stats[c].failed + stats[c].errored = stats[c].total
    /\ SumTotals(stats, DOMAIN stats) = Len(results)

\* The names of the conversation groups of the results with a group.
GroupsOf(rs) == { g \in {"", "conv1", "unknown"} :
                    \E i \in 1..Len(rs) : rs[i].conversation_group = Some(g) }

\* C39: the statistics from_results built are a projection of the result
\* list: in each category of by_conversation and of by_eval_type passed +
\* failed + errored = total, the totals of each grouping sum to the number of
\* results, overall passed + failed + errored = total_evaluations, and
\* total_conversations is the number of distinct non-null conversation groups
\* of the results.
C39_StatsAreProjection ==
    model # None =>
        /\ GroupingConsistent(model[1].by_conversation)
        /\ GroupingConsistent(model[1].by_eval_type)
        /\ model[1].passed + model[1].failed + model[1].errored = model[1].total_evaluations
        /\ model[1].total_evaluations = Len(results)
        /\ model[1].total_conversations = Cardinality(GroupsOf(results))

\* C39 as amended: the same projection, total_conversations being the number
\* of distinct non-empty conversation groups of the results: a result whose
\* group is null or the empty string belongs to no conversation.
C39_StatsAreProjectionNonEmpty ==
    model # None =>
        /\ GroupingConsistent(model[1].by_conversation)
        /\ GroupingConsistent(model[1].by_eval_type)
        /\ model[1].passed + model[1].failed + model[1].errored = model[1].total_evaluations
        /\ model[1].total_evaluations = Len(results)
        /\ model[1].total_conversations = Cardinality(GroupsOf(results) \ {""})

\* C39 witness: statistics over three results with all three outcomes, one
\* without a group, one of the group "" and one of the conversation conv1:
\* one conversation, and the categories unknown and conv1 by conversation.
C39_Witness ==
    /\ model # None
    /\ Len(results) = 3
    /\ { results[i].conversation_group : i \in 1..3 } = {None, Some(""), Some("conv1")}
    /\ { results[i].result : i \in 1..3 } = VALID_EVAL_RESULTS
    /\ model[1].total_conversations = 1
    /\ DOMAIN model[1].by_conversation = {"unknown", "conv1"}
    /\ model[1].by_conversation["unknown"].total = 2

====
